---- MODULE Spec2Model ----
(***************************************************************************)
(* Model of scripts/seo_qc.py: the article quality checker.                *)
(*                                                                         *)
(* A text is a sequence of characters; a character is a string.  ASCII     *)
(* characters stand for themselves ("-", "|", "#", "\n"), except the grave *)
(* accent, written "backtick"; a Japanese character is written by a        *)
(* romanised name ("h-da" is the kana DA, "maru" the full stop, "h-i" the  *)
(* kana I) and any other character by its code point ("U+3000" is the      *)
(* ideographic space, "U+FF11" the fullwidth digit one), one name per code *)
(* point, so that every index, slice and length below is the Python one.   *)
(*                                                                         *)
(* Positions are 0-based as in Python: Slice(s, a, b) is s[a:b] and        *)
(* find(s, p, from) returns -1 when p does not occur.                      *)
(*                                                                         *)
(* A local of the Python code that is read more than once is a parameter   *)
(* of a helper operator (the operator XAt or XOf next to X).               *)
(***************************************************************************)
EXTENDS Integers, Sequences, FiniteSets, TLC

VARIABLES
    area_dir,     \* run_site: "dir" when the site's article directory exists
    files,        \* run_site: all_files, the sorted .md paths then the .mdx
    idx,          \* run_site: how many files the for loop has processed
    all_results,  \* run_site: the insertion-ordered dict file name -> results
    report,       \* run_site: the returned report
    pc,           \* position of the running function
    input,        \* argument of the function under check; under run_site
                  \* the paths its two globs find in the directory
    result        \* value that function returned

vars == <<area_dir, files, idx, all_results, report, pc, input, result>>

-----------------------------------------------------------------------------
(* Python str primitives                                                   *)

Min(a, b) == IF a < b THEN a ELSE b

\* the least element of the set S of integers, d if S is empty
LeastOr(S, d) == IF S = {} THEN d ELSE CHOOSE i \in S : \A j \in S : i <= j

\* the greatest element of the set S of integers, d if S is empty
GreatestOr(S, d) == IF S = {} THEN d ELSE CHOOSE i \in S : \A j \in S : i >= j

\* s[a:b] for 0 <= a, b (clamped to len(s) as Python does)
Slice(s, a, b) == SubSeq(s, a + 1, Min(b, Len(s)))

\* s[a:]
SliceFrom(s, a) == SubSeq(s, a + 1, Len(s))

\* p occurs in s at 0-based position i
MatchAt(s, p, i) ==
    /\ i >= 0
    /\ i + Len(p) <= Len(s)
    /\ \A k \in 1..Len(p) : s[i + k] = p[k]

\* str.startswith
startswith(s, p) == MatchAt(s, p, 0)

\* str.find(p, from): lowest position >= from where p occurs, else -1
find(s, p, from) ==
    LeastOr({i \in from..(Len(s) - Len(p)) : MatchAt(s, p, i)}, -1)

\* p in s
contains(s, p) == \E i \in 0..(Len(s) - Len(p)) : MatchAt(s, p, i)

\* str.count(p) for a non-empty p: non-overlapping occurrences, scanning
\* left to right; CountAt continues after the occurrence found at i
RECURSIVE CountFrom(_, _, _), CountAt(_, _, _)
CountFrom(s, p, from) == CountAt(s, p, find(s, p, from))

CountAt(s, p, i) == IF i = -1 THEN 0 ELSE 1 + CountFrom(s, p, i + Len(p))

count(s, p) == IF Len(p) = 0 THEN Len(s) + 1 ELSE CountFrom(s, p, 0)

\* the characters str.strip() and the regex class \s remove: those for
\* which str.isspace() holds
Whitespace ==
    {"\t", "\n", "U+000B", "\f", "\r", "U+001C", "U+001D", "U+001E",
     "U+001F", " ", "U+0085", "U+00A0", "U+1680", "U+2000", "U+2001",
     "U+2002", "U+2003", "U+2004", "U+2005", "U+2006", "U+2007", "U+2008",
     "U+2009", "U+200A", "U+2028", "U+2029", "U+202F", "U+205F", "U+3000"}

\* str.strip()
strip(s) ==
    SubSeq(s, LeastOr({i \in 1..Len(s) : s[i] \notin Whitespace}, 1),
              GreatestOr({i \in 1..Len(s) : s[i] \notin Whitespace}, 0))

\* str.split("\n"): always at least one line; SplitAt continues with the
\* newline found at i
RECURSIVE SplitFrom(_, _), SplitAt(_, _, _)
SplitFrom(s, from) == SplitAt(s, from, find(s, <<"\n">>, from))

SplitAt(s, from, i) ==
    IF i = -1 THEN <<SliceFrom(s, from)>>
    ELSE <<Slice(s, from, i)>> \o SplitFrom(s, i + 1)

split(s) == SplitFrom(s, 0)

\* "\n".join(lines)
RECURSIVE join(_)
join(lines) ==
    IF Len(lines) = 0 THEN <<>>
    ELSE IF Len(lines) = 1 THEN lines[1]
    ELSE lines[1] \o <<"\n">> \o join(Tail(lines))

\* the characters the regex class \d matches in a str pattern: the decimal
\* digits of every script (Unicode category Nd)
Digits ==
    {"0", "1", "2", "3", "4", "5", "6", "7", "8", "9", "U+0660", "U+0661",
     "U+0662", "U+0663", "U+0664", "U+0665", "U+0666", "U+0667", "U+0668",
     "U+0669", "U+06F0", "U+06F1", "U+06F2", "U+06F3", "U+06F4", "U+06F5",
     "U+06F6", "U+06F7", "U+06F8", "U+06F9", "U+07C0", "U+07C1", "U+07C2",
     "U+07C3", "U+07C4", "U+07C5", "U+07C6", "U+07C7", "U+07C8", "U+07C9",
     "U+0966", "U+0967", "U+0968", "U+0969", "U+096A", "U+096B", "U+096C",
     "U+096D", "U+096E", "U+096F", "U+09E6", "U+09E7", "U+09E8", "U+09E9",
     "U+09EA", "U+09EB", "U+09EC", "U+09ED", "U+09EE", "U+09EF", "U+0A66",
     "U+0A67", "U+0A68", "U+0A69", "U+0A6A", "U+0A6B", "U+0A6C", "U+0A6D",
     "U+0A6E", "U+0A6F", "U+0AE6", "U+0AE7", "U+0AE8", "U+0AE9", "U+0AEA",
     "U+0AEB", "U+0AEC", "U+0AED", "U+0AEE", "U+0AEF", "U+0B66", "U+0B67",
     "U+0B68", "U+0B69", "U+0B6A", "U+0B6B", "U+0B6C", "U+0B6D", "U+0B6E",
     "U+0B6F", "U+0BE6", "U+0BE7", "U+0BE8", "U+0BE9", "U+0BEA", "U+0BEB",
     "U+0BEC", "U+0BED", "U+0BEE", "U+0BEF", "U+0C66", "U+0C67", "U+0C68",
     "U+0C69", "U+0C6A", "U+0C6B", "U+0C6C", "U+0C6D", "U+0C6E", "U+0C6F",
     "U+0CE6", "U+0CE7", "U+0CE8", "U+0CE9", "U+0CEA", "U+0CEB", "U+0CEC",
     "U+0CED", "U+0CEE", "U+0CEF", "U+0D66", "U+0D67", "U+0D68", "U+0D69",
     "U+0D6A", "U+0D6B", "U+0D6C", "U+0D6D", "U+0D6E", "U+0D6F", "U+0DE6",
     "U+0DE7", "U+0DE8", "U+0DE9", "U+0DEA", "U+0DEB", "U+0DEC", "U+0DED",
     "U+0DEE", "U+0DEF", "U+0E50", "U+0E51", "U+0E52", "U+0E53", "U+0E54",
     "U+0E55", "U+0E56", "U+0E57", "U+0E58", "U+0E59", "U+0ED0", "U+0ED1",
     "U+0ED2", "U+0ED3", "U+0ED4", "U+0ED5", "U+0ED6", "U+0ED7", "U+0ED8",
     "U+0ED9", "U+0F20", "U+0F21", "U+0F22", "U+0F23", "U+0F24", "U+0F25",
     "U+0F26", "U+0F27", "U+0F28", "U+0F29", "U+1040", "U+1041", "U+1042",
     "U+1043", "U+1044", "U+1045", "U+1046", "U+1047", "U+1048", "U+1049",
     "U+1090", "U+1091", "U+1092", "U+1093", "U+1094", "U+1095", "U+1096",
     "U+1097", "U+1098", "U+1099", "U+17E0", "U+17E1", "U+17E2", "U+17E3",
     "U+17E4", "U+17E5", "U+17E6", "U+17E7", "U+17E8", "U+17E9", "U+1810",
     "U+1811", "U+1812", "U+1813", "U+1814", "U+1815", "U+1816", "U+1817",
     "U+1818", "U+1819", "U+1946", "U+1947", "U+1948", "U+1949", "U+194A",
     "U+194B", "U+194C", "U+194D", "U+194E", "U+194F", "U+19D0", "U+19D1",
     "U+19D2", "U+19D3", "U+19D4", "U+19D5", "U+19D6", "U+19D7", "U+19D8",
     "U+19D9", "U+1A80", "U+1A81", "U+1A82", "U+1A83", "U+1A84", "U+1A85",
     "U+1A86", "U+1A87", "U+1A88", "U+1A89", "U+1A90", "U+1A91", "U+1A92",
     "U+1A93", "U+1A94", "U+1A95", "U+1A96", "U+1A97", "U+1A98", "U+1A99",
     "U+1B50", "U+1B51", "U+1B52", "U+1B53", "U+1B54", "U+1B55", "U+1B56",
     "U+1B57", "U+1B58", "U+1B59", "U+1BB0", "U+1BB1", "U+1BB2", "U+1BB3",
     "U+1BB4", "U+1BB5", "U+1BB6", "U+1BB7", "U+1BB8", "U+1BB9", "U+1C40",
     "U+1C41", "U+1C42", "U+1C43", "U+1C44", "U+1C45", "U+1C46", "U+1C47",
     "U+1C48", "U+1C49", "U+1C50", "U+1C51", "U+1C52", "U+1C53", "U+1C54",
     "U+1C55", "U+1C56", "U+1C57", "U+1C58", "U+1C59", "U+A620", "U+A621",
     "U+A622", "U+A623", "U+A624", "U+A625", "U+A626", "U+A627", "U+A628",
     "U+A629", "U+A8D0", "U+A8D1", "U+A8D2", "U+A8D3", "U+A8D4", "U+A8D5",
     "U+A8D6", "U+A8D7", "U+A8D8", "U+A8D9", "U+A900", "U+A901", "U+A902",
     "U+A903", "U+A904", "U+A905", "U+A906", "U+A907", "U+A908", "U+A909",
     "U+A9D0", "U+A9D1", "U+A9D2", "U+A9D3", "U+A9D4", "U+A9D5", "U+A9D6",
     "U+A9D7", "U+A9D8", "U+A9D9", "U+A9F0", "U+A9F1", "U+A9F2", "U+A9F3",
     "U+A9F4", "U+A9F5", "U+A9F6", "U+A9F7", "U+A9F8", "U+A9F9", "U+AA50",
     "U+AA51", "U+AA52", "U+AA53", "U+AA54", "U+AA55", "U+AA56", "U+AA57",
     "U+AA58", "U+AA59", "U+ABF0", "U+ABF1", "U+ABF2", "U+ABF3", "U+ABF4",
     "U+ABF5", "U+ABF6", "U+ABF7", "U+ABF8", "U+ABF9", "U+FF10", "U+FF11",
     "U+FF12", "U+FF13", "U+FF14", "U+FF15", "U+FF16", "U+FF17", "U+FF18",
     "U+FF19", "U+104A0", "U+104A1", "U+104A2", "U+104A3", "U+104A4",
     "U+104A5", "U+104A6", "U+104A7", "U+104A8", "U+104A9", "U+10D30",
     "U+10D31", "U+10D32", "U+10D33", "U+10D34", "U+10D35", "U+10D36",
     "U+10D37", "U+10D38", "U+10D39", "U+11066", "U+11067", "U+11068",
     "U+11069", "U+1106A", "U+1106B", "U+1106C", "U+1106D", "U+1106E",
     "U+1106F", "U+110F0", "U+110F1", "U+110F2", "U+110F3", "U+110F4",
     "U+110F5", "U+110F6", "U+110F7", "U+110F8", "U+110F9", "U+11136",
     "U+11137", "U+11138", "U+11139", "U+1113A", "U+1113B", "U+1113C",
     "U+1113D", "U+1113E", "U+1113F", "U+111D0", "U+111D1", "U+111D2",
     "U+111D3", "U+111D4", "U+111D5", "U+111D6", "U+111D7", "U+111D8",
     "U+111D9", "U+112F0", "U+112F1", "U+112F2", "U+112F3", "U+112F4",
     "U+112F5", "U+112F6", "U+112F7", "U+112F8", "U+112F9", "U+11450",
     "U+11451", "U+11452", "U+11453", "U+11454", "U+11455", "U+11456",
     "U+11457", "U+11458", "U+11459", "U+114D0", "U+114D1", "U+114D2",
     "U+114D3", "U+114D4", "U+114D5", "U+114D6", "U+114D7", "U+114D8",
     "U+114D9", "U+11650", "U+11651", "U+11652", "U+11653", "U+11654",
     "U+11655", "U+11656", "U+11657", "U+11658", "U+11659", "U+116C0",
     "U+116C1", "U+116C2", "U+116C3", "U+116C4", "U+116C5", "U+116C6",
     "U+116C7", "U+116C8", "U+116C9", "U+11730", "U+11731", "U+11732",
     "U+11733", "U+11734", "U+11735", "U+11736", "U+11737", "U+11738",
     "U+11739", "U+118E0", "U+118E1", "U+118E2", "U+118E3", "U+118E4",
     "U+118E5", "U+118E6", "U+118E7", "U+118E8", "U+118E9", "U+11950",
     "U+11951", "U+11952", "U+11953", "U+11954", "U+11955", "U+11956",
     "U+11957", "U+11958", "U+11959", "U+11C50", "U+11C51", "U+11C52",
     "U+11C53", "U+11C54", "U+11C55", "U+11C56", "U+11C57", "U+11C58",
     "U+11C59", "U+11D50", "U+11D51", "U+11D52", "U+11D53", "U+11D54",
     "U+11D55", "U+11D56", "U+11D57", "U+11D58", "U+11D59", "U+11DA0",
     "U+11DA1", "U+11DA2", "U+11DA3", "U+11DA4", "U+11DA5", "U+11DA6",
     "U+11DA7", "U+11DA8", "U+11DA9", "U+16A60", "U+16A61", "U+16A62",
     "U+16A63", "U+16A64", "U+16A65", "U+16A66", "U+16A67", "U+16A68",
     "U+16A69", "U+16AC0", "U+16AC1", "U+16AC2", "U+16AC3", "U+16AC4",
     "U+16AC5", "U+16AC6", "U+16AC7", "U+16AC8", "U+16AC9", "U+16B50",
     "U+16B51", "U+16B52", "U+16B53", "U+16B54", "U+16B55", "U+16B56",
     "U+16B57", "U+16B58", "U+16B59", "U+1D7CE", "U+1D7CF", "U+1D7D0",
     "U+1D7D1", "U+1D7D2", "U+1D7D3", "U+1D7D4", "U+1D7D5", "U+1D7D6",
     "U+1D7D7", "U+1D7D8", "U+1D7D9", "U+1D7DA", "U+1D7DB", "U+1D7DC",
     "U+1D7DD", "U+1D7DE", "U+1D7DF", "U+1D7E0", "U+1D7E1", "U+1D7E2",
     "U+1D7E3", "U+1D7E4", "U+1D7E5", "U+1D7E6", "U+1D7E7", "U+1D7E8",
     "U+1D7E9", "U+1D7EA", "U+1D7EB", "U+1D7EC", "U+1D7ED", "U+1D7EE",
     "U+1D7EF", "U+1D7F0", "U+1D7F1", "U+1D7F2", "U+1D7F3", "U+1D7F4",
     "U+1D7F5", "U+1D7F6", "U+1D7F7", "U+1D7F8", "U+1D7F9", "U+1D7FA",
     "U+1D7FB", "U+1D7FC", "U+1D7FD", "U+1D7FE", "U+1D7FF", "U+1E140",
     "U+1E141", "U+1E142", "U+1E143", "U+1E144", "U+1E145", "U+1E146",
     "U+1E147", "U+1E148", "U+1E149", "U+1E2F0", "U+1E2F1", "U+1E2F2",
     "U+1E2F3", "U+1E2F4", "U+1E2F5", "U+1E2F6", "U+1E2F7", "U+1E2F8",
     "U+1E2F9", "U+1E950", "U+1E951", "U+1E952", "U+1E953", "U+1E954",
     "U+1E955", "U+1E956", "U+1E957", "U+1E958", "U+1E959", "U+1FBF0",
     "U+1FBF1", "U+1FBF2", "U+1FBF3", "U+1FBF4", "U+1FBF5", "U+1FBF6",
     "U+1FBF7", "U+1FBF8", "U+1FBF9"}

-----------------------------------------------------------------------------
(* Python values.  A value is [t |-> its type, v |-> the text str() gives  *)
(* for it, items |-> the elements of a list].                              *)

PyStr(v)   == [t |-> "str",   v |-> v, items |-> <<>>]
PyInt(v)   == [t |-> "int",   v |-> v, items |-> <<>>]
PyFloat(v) == [t |-> "float", v |-> v, items |-> <<>>]
PyBool(v)  == [t |-> "bool",  v |-> v, items |-> <<>>]
PyDate(v)  == [t |-> "date",  v |-> v, items |-> <<>>]
PyNone     == [t |-> "none",  v |-> <<"N", "o", "n", "e">>, items |-> <<>>]
PyList(xs) == [t |-> "list",  v |-> <<>>, items |-> xs]

\* a datetime.datetime, v being the text str() gives for it
PyDateTime(v) == [t |-> "datetime", v |-> v, items |-> <<>>]

\* a dict, given by its items in insertion order: pairs <<key, value>>
PyDict(kvs) == [t |-> "dict", v |-> <<>>, items |-> kvs]

-----------------------------------------------------------------------------
(* parse_frontmatter.  yaml.safe_load is PyYAML, a library outside the     *)
(* script: it enters as safe_load, a function from the header text to what *)
(* the call does with it.  Kind "dict" is a returned mapping, value its    *)
(* function from the str keys to their Python values (the checks look up   *)
(* str keys only); kind "other" is any other returned value, kind          *)
(* "yamlerror" a raised yaml.YAMLError and kind "raised" an exception that *)
(* is no YAMLError (the ValueError of the date 2024-02-30).                *)

LoadDict(fm)  == [kind |-> "dict", value |-> fm]
LoadOther     == [kind |-> "other", value |-> <<>>]
LoadYamlError == [kind |-> "yamlerror", value |-> <<>>]
LoadRaised    == [kind |-> "raised", value |-> <<>>]

Delim == <<"-", "-", "-">>

\* lines 42-50 with end = content.find("---", 3)
SplitHeader(content, end) ==
    IF ~startswith(content, Delim) \/ end = -1
    THEN [found |-> FALSE, fm_str |-> <<>>, body |-> content]
    ELSE [found |-> TRUE,
          fm_str |-> strip(Slice(content, 3, end)),
          body   |-> strip(SliceFrom(content, end + 3))]

\* lines 42-50: where the header block and the body are cut
FrontmatterSplit(content) == SplitHeader(content, find(content, Delim, 3))

\* lines 52-59 for the loaded header
ParsedOf(body, loaded) ==
    [raised |-> loaded.kind = "raised",
     fm     |-> IF loaded.kind = "dict" THEN loaded.value ELSE <<>>,
     body   |-> body]

ParsedAt(cut, safe_load) ==
    IF ~cut.found THEN [raised |-> FALSE, fm |-> <<>>, body |-> cut.body]
    ELSE ParsedOf(cut.body, safe_load[cut.fm_str])

\* (fm, body); raised when yaml.safe_load raises something other than
\* yaml.YAMLError, which parse_frontmatter does not catch
parse_frontmatter(content, safe_load) ==
    ParsedAt(FrontmatterSplit(content), safe_load)

-----------------------------------------------------------------------------
(* Module constants (lines 26-37)                                          *)

\* FORBIDDEN_WORDS, in list order
FORBIDDEN_WORDS ==
    << <<"j-hitsu", "h-zu">>,
       <<"j-zetsu", "j-tai">>,
       <<"j-ma", "j-chiga", "h-i", "h-na", "h-ku">>,
       <<"j-sai", "j-taka">>,
       <<"N", "o", ".", "1">>,
       <<"k-na", "k-n", "k-ba", "k-long", "k-wa", "k-n">>,
       <<"j-ichi", "j-ban">> >>

\* REQUIRED_FIELDS, in list order
REQUIRED_FIELDS ==
    << <<"t", "i", "t", "l", "e">>,
       <<"d", "e", "s", "c", "r", "i", "p", "t", "i", "o", "n">>,
       <<"p", "u", "b", "l", "i", "s", "h", "e", "d", "A", "t">>,
       <<"c", "a", "t", "e", "g", "o", "r", "y">>,
       <<"a", "r", "e", "a">>,
       <<"k", "e", "y", "w", "o", "r", "d">>,
       <<"k", "e", "y", "w", "o", "r", "d", "s">> >>

\* dddd-dd-dd
IsDateText(core) ==
    /\ Len(core) = 10
    /\ \A k \in {1, 2, 3, 4, 6, 7, 9, 10} : core[k] \in Digits
    /\ core[5] = "-"
    /\ core[8] = "-"

\* DATE_PATTERN.match(val): the pattern ends in $, which also matches
\* before one trailing newline
DATE_PATTERN_match(val) ==
    IF Len(val) = 11 /\ val[11] = "\n" THEN IsDateText(SubSeq(val, 1, 10))
    ELSE IsDateText(val)

\* an entry of a detail: a message and what the f-string puts into it
Issue(msg, arg) == [msg |-> msg, arg |-> arg]

\* the verdict a check returns: (passed, detail)
Verdict(passed, detail) == [pass |-> passed, detail |-> detail]

-----------------------------------------------------------------------------
(* strip_html_tags and count_japanese_chars                                *)

\* a match of the tag pattern of line 64 starts at position i: a "<", then
\* at least one character that is not ">", then a ">"
TagAt(text, i) == MatchAt(text, <<"<">>, i) /\ find(text, <<">">>, i + 1) > i + 1

\* the re.sub of line 64 from position pos on: the text up to the leftmost
\* tag (at i), then the rest after that tag
RECURSIVE StripTagsFrom(_, _), StripTagsAt(_, _, _)
StripTagsFrom(text, pos) ==
    StripTagsAt(text, pos, LeastOr({i \in pos..Len(text) : TagAt(text, i)}, -1))

StripTagsAt(text, pos, i) ==
    IF i = -1 THEN SliceFrom(text, pos)
    ELSE Slice(text, pos, i) \o StripTagsFrom(text, find(text, <<">">>, i + 1) + 1)

strip_html_tags(text) == StripTagsFrom(text, 0)

\* the link whose "]" is at rb and whose ")" is at rp
LinkClose(rb, rp) == IF rp = -1 THEN <<>> ELSE <<rb, rp>>

LinkEnds(text, i, rb) ==
    IF MatchAt(text, <<"[">>, i) /\ rb # -1 /\ MatchAt(text, <<"(">>, rb + 1)
    THEN LinkClose(rb, find(text, <<")">>, rb + 2))
    ELSE <<>>

\* the markdown link [text](url) that starts at position i: the positions
\* of its "]" and its ")", <<>> when no link starts there
LinkAt(text, i) == LinkEnds(text, i, find(text, <<"]">>, i + 1))

\* the re.sub of line 72, a markdown link [text](url) becoming text, from
\* position pos on
RECURSIVE CollapseLinksFrom(_, _), CollapseAt(_, _, _), CollapseLink(_, _, _, _)
CollapseLinksFrom(text, pos) ==
    CollapseAt(text, pos, LeastOr({i \in pos..Len(text) : LinkAt(text, i) # <<>>}, -1))

CollapseAt(text, pos, i) ==
    IF i = -1 THEN SliceFrom(text, pos)
    ELSE CollapseLink(text, pos, i, LinkAt(text, i))

CollapseLink(text, pos, i, ends) ==
    Slice(text, pos, i) \o Slice(text, i + 1, ends[1])
    \o CollapseLinksFrom(text, ends[2] + 1)

\* the character class of line 74
MarkdownMarks == {"#", "*", "_", "backtick", "|", ">", "-"}

\* lines 74-77: what is left after the marks and the whitespace are removed
VisibleCount(text) ==
    Cardinality({k \in 1..Len(text) : text[k] \notin MarkdownMarks \cup Whitespace})

count_japanese_chars(text) ==
    VisibleCount(CollapseLinksFrom(strip_html_tags(text), 0))

-----------------------------------------------------------------------------
(* find_h2_sections                                                        *)

H2Prefix == <<"#", "#", " ">>

\* sections.append((current_heading, "\n".join(current_lines))) when
\* current_heading is not None
FlushSection(sections, current_heading, current_lines) ==
    IF current_heading # <<>>
    THEN Append(sections, <<current_heading[1], join(current_lines)>>)
    ELSE sections

\* the for loop of lines 87-94 from line k on, with its three locals, and
\* the final append of lines 96-97; a section is <<heading, content>>
RECURSIVE H2Scan(_, _, _, _, _)
H2Scan(lines, k, sections, current_heading, current_lines) ==
    IF k > Len(lines)
    THEN FlushSection(sections, current_heading, current_lines)
    ELSE IF startswith(lines[k], H2Prefix)
    THEN H2Scan(lines, k + 1,
                FlushSection(sections, current_heading, current_lines),
                <<lines[k]>>, <<>>)
    ELSE IF current_heading # <<>>
    THEN H2Scan(lines, k + 1, sections, current_heading,
                Append(current_lines, lines[k]))
    ELSE H2Scan(lines, k + 1, sections, current_heading, current_lines)

\* current_heading is <<>> for None and <<line>> for a heading line
find_h2_sections(body) == H2Scan(split(body), 1, <<>>, <<>>, <<>>)

-----------------------------------------------------------------------------
(* The fourteen checks.  fm is the frontmatter dict: a function from key   *)
(* texts to Python values.                                                 *)

\* isinstance(x, str) and x.strip() is non-empty
NonEmptyStr(x) == x.t = "str" /\ strip(x.v) # <<>>

\* the quote repr() puts around a str: " when the text holds ' and no "
ReprQuote(v) ==
    IF (\E k \in 1..Len(v) : v[k] = "'") /\ ~(\E k \in 1..Len(v) : v[k] = "\"")
    THEN "\"" ELSE "'"

\* the value of a hexadecimal digit of a code point name
HexVal(d) ==
    CASE d = "0" -> 0 [] d = "1" -> 1 [] d = "2" -> 2 [] d = "3" -> 3
      [] d = "4" -> 4 [] d = "5" -> 5 [] d = "6" -> 6 [] d = "7" -> 7
      [] d = "8" -> 8 [] d = "9" -> 9 [] d = "A" -> 10 [] d = "B" -> 11
      [] d = "C" -> 12 [] d = "D" -> 13 [] d = "E" -> 14 [] d = "F" -> 15

\* the number the hexadecimal digits ds write
RECURSIVE HexNum(_)
HexNum(ds) ==
    IF Len(ds) = 0 THEN 0
    ELSE 16 * HexNum(SubSeq(ds, 1, Len(ds) - 1)) + HexVal(SubSeq(ds, Len(ds), Len(ds)))

\* the character c is written by its code point: "U+" and 4 to 6 digits
IsCodePointName(c) == Len(c) >= 6 /\ Len(c) <= 8 /\ SubSeq(c, 1, 2) = "U+"

\* ord(c) of such a character
CodePoint(c) == HexNum(SubSeq(c, 3, Len(c)))

\* the code points str.isprintable() rejects, as ranges first..last
\* (Unicode 14.0, the character database of Python 3.11)
NonPrintable ==
    <<
      <<0, 31>>, <<127, 160>>, <<173, 173>>, <<888, 889>>, <<896, 899>>,
      <<907, 907>>, <<909, 909>>, <<930, 930>>, <<1328, 1328>>,
      <<1367, 1368>>, <<1419, 1420>>, <<1424, 1424>>, <<1480, 1487>>,
      <<1515, 1518>>, <<1525, 1541>>, <<1564, 1564>>, <<1757, 1757>>,
      <<1806, 1807>>, <<1867, 1868>>, <<1970, 1983>>, <<2043, 2044>>,
      <<2094, 2095>>, <<2111, 2111>>, <<2140, 2141>>, <<2143, 2143>>,
      <<2155, 2159>>, <<2191, 2199>>, <<2274, 2274>>, <<2436, 2436>>,
      <<2445, 2446>>, <<2449, 2450>>, <<2473, 2473>>, <<2481, 2481>>,
      <<2483, 2485>>, <<2490, 2491>>, <<2501, 2502>>, <<2505, 2506>>,
      <<2511, 2518>>, <<2520, 2523>>, <<2526, 2526>>, <<2532, 2533>>,
      <<2559, 2560>>, <<2564, 2564>>, <<2571, 2574>>, <<2577, 2578>>,
      <<2601, 2601>>, <<2609, 2609>>, <<2612, 2612>>, <<2615, 2615>>,
      <<2618, 2619>>, <<2621, 2621>>, <<2627, 2630>>, <<2633, 2634>>,
      <<2638, 2640>>, <<2642, 2648>>, <<2653, 2653>>, <<2655, 2661>>,
      <<2679, 2688>>, <<2692, 2692>>, <<2702, 2702>>, <<2706, 2706>>,
      <<2729, 2729>>, <<2737, 2737>>, <<2740, 2740>>, <<2746, 2747>>,
      <<2758, 2758>>, <<2762, 2762>>, <<2766, 2767>>, <<2769, 2783>>,
      <<2788, 2789>>, <<2802, 2808>>, <<2816, 2816>>, <<2820, 2820>>,
      <<2829, 2830>>, <<2833, 2834>>, <<2857, 2857>>, <<2865, 2865>>,
      <<2868, 2868>>, <<2874, 2875>>, <<2885, 2886>>, <<2889, 2890>>,
      <<2894, 2900>>, <<2904, 2907>>, <<2910, 2910>>, <<2916, 2917>>,
      <<2936, 2945>>, <<2948, 2948>>, <<2955, 2957>>, <<2961, 2961>>,
      <<2966, 2968>>, <<2971, 2971>>, <<2973, 2973>>, <<2976, 2978>>,
      <<2981, 2983>>, <<2987, 2989>>, <<3002, 3005>>, <<3011, 3013>>,
      <<3017, 3017>>, <<3022, 3023>>, <<3025, 3030>>, <<3032, 3045>>,
      <<3067, 3071>>, <<3085, 3085>>, <<3089, 3089>>, <<3113, 3113>>,
      <<3130, 3131>>, <<3141, 3141>>, <<3145, 3145>>, <<3150, 3156>>,
      <<3159, 3159>>, <<3163, 3164>>, <<3166, 3167>>, <<3172, 3173>>,
      <<3184, 3190>>, <<3213, 3213>>, <<3217, 3217>>, <<3241, 3241>>,
      <<3252, 3252>>, <<3258, 3259>>, <<3269, 3269>>, <<3273, 3273>>,
      <<3278, 3284>>, <<3287, 3292>>, <<3295, 3295>>, <<3300, 3301>>,
      <<3312, 3312>>, <<3315, 3327>>, <<3341, 3341>>, <<3345, 3345>>,
      <<3397, 3397>>, <<3401, 3401>>, <<3408, 3411>>, <<3428, 3429>>,
      <<3456, 3456>>, <<3460, 3460>>, <<3479, 3481>>, <<3506, 3506>>,
      <<3516, 3516>>, <<3518, 3519>>, <<3527, 3529>>, <<3531, 3534>>,
      <<3541, 3541>>, <<3543, 3543>>, <<3552, 3557>>, <<3568, 3569>>,
      <<3573, 3584>>, <<3643, 3646>>, <<3676, 3712>>, <<3715, 3715>>,
      <<3717, 3717>>, <<3723, 3723>>, <<3748, 3748>>, <<3750, 3750>>,
      <<3774, 3775>>, <<3781, 3781>>, <<3783, 3783>>, <<3790, 3791>>,
      <<3802, 3803>>, <<3808, 3839>>, <<3912, 3912>>, <<3949, 3952>>,
      <<3992, 3992>>, <<4029, 4029>>, <<4045, 4045>>, <<4059, 4095>>,
      <<4294, 4294>>, <<4296, 4300>>, <<4302, 4303>>, <<4681, 4681>>,
      <<4686, 4687>>, <<4695, 4695>>, <<4697, 4697>>, <<4702, 4703>>,
      <<4745, 4745>>, <<4750, 4751>>, <<4785, 4785>>, <<4790, 4791>>,
      <<4799, 4799>>, <<4801, 4801>>, <<4806, 4807>>, <<4823, 4823>>,
      <<4881, 4881>>, <<4886, 4887>>, <<4955, 4956>>, <<4989, 4991>>,
      <<5018, 5023>>, <<5110, 5111>>, <<5118, 5119>>, <<5760, 5760>>,
      <<5789, 5791>>, <<5881, 5887>>, <<5910, 5918>>, <<5943, 5951>>,
      <<5972, 5983>>, <<5997, 5997>>, <<6001, 6001>>, <<6004, 6015>>,
      <<6110, 6111>>, <<6122, 6127>>, <<6138, 6143>>, <<6158, 6158>>,
      <<6170, 6175>>, <<6265, 6271>>, <<6315, 6319>>, <<6390, 6399>>,
      <<6431, 6431>>, <<6444, 6447>>, <<6460, 6463>>, <<6465, 6467>>,
      <<6510, 6511>>, <<6517, 6527>>, <<6572, 6575>>, <<6602, 6607>>,
      <<6619, 6621>>, <<6684, 6685>>, <<6751, 6751>>, <<6781, 6782>>,
      <<6794, 6799>>, <<6810, 6815>>, <<6830, 6831>>, <<6863, 6911>>,
      <<6989, 6991>>, <<7039, 7039>>, <<7156, 7163>>, <<7224, 7226>>,
      <<7242, 7244>>, <<7305, 7311>>, <<7355, 7356>>, <<7368, 7375>>,
      <<7419, 7423>>, <<7958, 7959>>, <<7966, 7967>>, <<8006, 8007>>,
      <<8014, 8015>>, <<8024, 8024>>, <<8026, 8026>>, <<8028, 8028>>,
      <<8030, 8030>>, <<8062, 8063>>, <<8117, 8117>>, <<8133, 8133>>,
      <<8148, 8149>>, <<8156, 8156>>, <<8176, 8177>>, <<8181, 8181>>,
      <<8191, 8207>>, <<8232, 8239>>, <<8287, 8303>>, <<8306, 8307>>,
      <<8335, 8335>>, <<8349, 8351>>, <<8385, 8399>>, <<8433, 8447>>,
      <<8588, 8591>>, <<9255, 9279>>, <<9291, 9311>>, <<11124, 11125>>,
      <<11158, 11158>>, <<11508, 11512>>, <<11558, 11558>>,
      <<11560, 11564>>, <<11566, 11567>>, <<11624, 11630>>,
      <<11633, 11646>>, <<11671, 11679>>, <<11687, 11687>>,
      <<11695, 11695>>, <<11703, 11703>>, <<11711, 11711>>,
      <<11719, 11719>>, <<11727, 11727>>, <<11735, 11735>>,
      <<11743, 11743>>, <<11870, 11903>>, <<11930, 11930>>,
      <<12020, 12031>>, <<12246, 12271>>, <<12284, 12288>>,
      <<12352, 12352>>, <<12439, 12440>>, <<12544, 12548>>,
      <<12592, 12592>>, <<12687, 12687>>, <<12772, 12783>>,
      <<12831, 12831>>, <<42125, 42127>>, <<42183, 42191>>,
      <<42540, 42559>>, <<42744, 42751>>, <<42955, 42959>>,
      <<42962, 42962>>, <<42964, 42964>>, <<42970, 42993>>,
      <<43053, 43055>>, <<43066, 43071>>, <<43128, 43135>>,
      <<43206, 43213>>, <<43226, 43231>>, <<43348, 43358>>,
      <<43389, 43391>>, <<43470, 43470>>, <<43482, 43485>>,
      <<43519, 43519>>, <<43575, 43583>>, <<43598, 43599>>,
      <<43610, 43611>>, <<43715, 43738>>, <<43767, 43776>>,
      <<43783, 43784>>, <<43791, 43792>>, <<43799, 43807>>,
      <<43815, 43815>>, <<43823, 43823>>, <<43884, 43887>>,
      <<44014, 44015>>, <<44026, 44031>>, <<55204, 55215>>,
      <<55239, 55242>>, <<55292, 63743>>, <<64110, 64111>>,
      <<64218, 64255>>, <<64263, 64274>>, <<64280, 64284>>,
      <<64311, 64311>>, <<64317, 64317>>, <<64319, 64319>>,
      <<64322, 64322>>, <<64325, 64325>>, <<64451, 64466>>,
      <<64912, 64913>>, <<64968, 64974>>, <<64976, 65007>>,
      <<65050, 65055>>, <<65107, 65107>>, <<65127, 65127>>,
      <<65132, 65135>>, <<65141, 65141>>, <<65277, 65280>>,
      <<65471, 65473>>, <<65480, 65481>>, <<65488, 65489>>,
      <<65496, 65497>>, <<65501, 65503>>, <<65511, 65511>>,
      <<65519, 65531>>, <<65534, 65535>>, <<65548, 65548>>,
      <<65575, 65575>>, <<65595, 65595>>, <<65598, 65598>>,
      <<65614, 65615>>, <<65630, 65663>>, <<65787, 65791>>,
      <<65795, 65798>>, <<65844, 65846>>, <<65935, 65935>>,
      <<65949, 65951>>, <<65953, 65999>>, <<66046, 66175>>,
      <<66205, 66207>>, <<66257, 66271>>, <<66300, 66303>>,
      <<66340, 66348>>, <<66379, 66383>>, <<66427, 66431>>,
      <<66462, 66462>>, <<66500, 66503>>, <<66518, 66559>>,
      <<66718, 66719>>, <<66730, 66735>>, <<66772, 66775>>,
      <<66812, 66815>>, <<66856, 66863>>, <<66916, 66926>>,
      <<66939, 66939>>, <<66955, 66955>>, <<66963, 66963>>,
      <<66966, 66966>>, <<66978, 66978>>, <<66994, 66994>>,
      <<67002, 67002>>, <<67005, 67071>>, <<67383, 67391>>,
      <<67414, 67423>>, <<67432, 67455>>, <<67462, 67462>>,
      <<67505, 67505>>, <<67515, 67583>>, <<67590, 67591>>,
      <<67593, 67593>>, <<67638, 67638>>, <<67641, 67643>>,
      <<67645, 67646>>, <<67670, 67670>>, <<67743, 67750>>,
      <<67760, 67807>>, <<67827, 67827>>, <<67830, 67834>>,
      <<67868, 67870>>, <<67898, 67902>>, <<67904, 67967>>,
      <<68024, 68027>>, <<68048, 68049>>, <<68100, 68100>>,
      <<68103, 68107>>, <<68116, 68116>>, <<68120, 68120>>,
      <<68150, 68151>>, <<68155, 68158>>, <<68169, 68175>>,
      <<68185, 68191>>, <<68256, 68287>>, <<68327, 68330>>,
      <<68343, 68351>>, <<68406, 68408>>, <<68438, 68439>>,
      <<68467, 68471>>, <<68498, 68504>>, <<68509, 68520>>,
      <<68528, 68607>>, <<68681, 68735>>, <<68787, 68799>>,
      <<68851, 68857>>, <<68904, 68911>>, <<68922, 69215>>,
      <<69247, 69247>>, <<69290, 69290>>, <<69294, 69295>>,
      <<69298, 69375>>, <<69416, 69423>>, <<69466, 69487>>,
      <<69514, 69551>>, <<69580, 69599>>, <<69623, 69631>>,
      <<69710, 69713>>, <<69750, 69758>>, <<69821, 69821>>,
      <<69827, 69839>>, <<69865, 69871>>, <<69882, 69887>>,
      <<69941, 69941>>, <<69960, 69967>>, <<70007, 70015>>,
      <<70112, 70112>>, <<70133, 70143>>, <<70162, 70162>>,
      <<70207, 70271>>, <<70279, 70279>>, <<70281, 70281>>,
      <<70286, 70286>>, <<70302, 70302>>, <<70314, 70319>>,
      <<70379, 70383>>, <<70394, 70399>>, <<70404, 70404>>,
      <<70413, 70414>>, <<70417, 70418>>, <<70441, 70441>>,
      <<70449, 70449>>, <<70452, 70452>>, <<70458, 70458>>,
      <<70469, 70470>>, <<70473, 70474>>, <<70478, 70479>>,
      <<70481, 70486>>, <<70488, 70492>>, <<70500, 70501>>,
      <<70509, 70511>>, <<70517, 70655>>, <<70748, 70748>>,
      <<70754, 70783>>, <<70856, 70863>>, <<70874, 71039>>,
      <<71094, 71095>>, <<71134, 71167>>, <<71237, 71247>>,
      <<71258, 71263>>, <<71277, 71295>>, <<71354, 71359>>,
      <<71370, 71423>>, <<71451, 71452>>, <<71468, 71471>>,
      <<71495, 71679>>, <<71740, 71839>>, <<71923, 71934>>,
      <<71943, 71944>>, <<71946, 71947>>, <<71956, 71956>>,
      <<71959, 71959>>, <<71990, 71990>>, <<71993, 71994>>,
      <<72007, 72015>>, <<72026, 72095>>, <<72104, 72105>>,
      <<72152, 72153>>, <<72165, 72191>>, <<72264, 72271>>,
      <<72355, 72367>>, <<72441, 72703>>, <<72713, 72713>>,
      <<72759, 72759>>, <<72774, 72783>>, <<72813, 72815>>,
      <<72848, 72849>>, <<72872, 72872>>, <<72887, 72959>>,
      <<72967, 72967>>, <<72970, 72970>>, <<73015, 73017>>,
      <<73019, 73019>>, <<73022, 73022>>, <<73032, 73039>>,
      <<73050, 73055>>, <<73062, 73062>>, <<73065, 73065>>,
      <<73103, 73103>>, <<73106, 73106>>, <<73113, 73119>>,
      <<73130, 73439>>, <<73465, 73647>>, <<73649, 73663>>,
      <<73714, 73726>>, <<74650, 74751>>, <<74863, 74863>>,
      <<74869, 74879>>, <<75076, 77711>>, <<77811, 77823>>,
      <<78895, 82943>>, <<83527, 92159>>, <<92729, 92735>>,
      <<92767, 92767>>, <<92778, 92781>>, <<92863, 92863>>,
      <<92874, 92879>>, <<92910, 92911>>, <<92918, 92927>>,
      <<92998, 93007>>, <<93018, 93018>>, <<93026, 93026>>,
      <<93048, 93052>>, <<93072, 93759>>, <<93851, 93951>>,
      <<94027, 94030>>, <<94088, 94094>>, <<94112, 94175>>,
      <<94181, 94191>>, <<94194, 94207>>, <<100344, 100351>>,
      <<101590, 101631>>, <<101641, 110575>>, <<110580, 110580>>,
      <<110588, 110588>>, <<110591, 110591>>, <<110883, 110927>>,
      <<110931, 110947>>, <<110952, 110959>>, <<111356, 113663>>,
      <<113771, 113775>>, <<113789, 113791>>, <<113801, 113807>>,
      <<113818, 113819>>, <<113824, 118527>>, <<118574, 118575>>,
      <<118599, 118607>>, <<118724, 118783>>, <<119030, 119039>>,
      <<119079, 119080>>, <<119155, 119162>>, <<119275, 119295>>,
      <<119366, 119519>>, <<119540, 119551>>, <<119639, 119647>>,
      <<119673, 119807>>, <<119893, 119893>>, <<119965, 119965>>,
      <<119968, 119969>>, <<119971, 119972>>, <<119975, 119976>>,
      <<119981, 119981>>, <<119994, 119994>>, <<119996, 119996>>,
      <<120004, 120004>>, <<120070, 120070>>, <<120075, 120076>>,
      <<120085, 120085>>, <<120093, 120093>>, <<120122, 120122>>,
      <<120127, 120127>>, <<120133, 120133>>, <<120135, 120137>>,
      <<120145, 120145>>, <<120486, 120487>>, <<120780, 120781>>,
      <<121484, 121498>>, <<121504, 121504>>, <<121520, 122623>>,
      <<122655, 122879>>, <<122887, 122887>>, <<122905, 122906>>,
      <<122914, 122914>>, <<122917, 122917>>, <<122923, 123135>>,
      <<123181, 123183>>, <<123198, 123199>>, <<123210, 123213>>,
      <<123216, 123535>>, <<123567, 123583>>, <<123642, 123646>>,
      <<123648, 124895>>, <<124903, 124903>>, <<124908, 124908>>,
      <<124911, 124911>>, <<124927, 124927>>, <<125125, 125126>>,
      <<125143, 125183>>, <<125260, 125263>>, <<125274, 125277>>,
      <<125280, 126064>>, <<126133, 126208>>, <<126270, 126463>>,
      <<126468, 126468>>, <<126496, 126496>>, <<126499, 126499>>,
      <<126501, 126502>>, <<126504, 126504>>, <<126515, 126515>>,
      <<126520, 126520>>, <<126522, 126522>>, <<126524, 126529>>,
      <<126531, 126534>>, <<126536, 126536>>, <<126538, 126538>>,
      <<126540, 126540>>, <<126544, 126544>>, <<126547, 126547>>,
      <<126549, 126550>>, <<126552, 126552>>, <<126554, 126554>>,
      <<126556, 126556>>, <<126558, 126558>>, <<126560, 126560>>,
      <<126563, 126563>>, <<126565, 126566>>, <<126571, 126571>>,
      <<126579, 126579>>, <<126584, 126584>>, <<126589, 126589>>,
      <<126591, 126591>>, <<126602, 126602>>, <<126620, 126624>>,
      <<126628, 126628>>, <<126634, 126634>>, <<126652, 126703>>,
      <<126706, 126975>>, <<127020, 127023>>, <<127124, 127135>>,
      <<127151, 127152>>, <<127168, 127168>>, <<127184, 127184>>,
      <<127222, 127231>>, <<127406, 127461>>, <<127491, 127503>>,
      <<127548, 127551>>, <<127561, 127567>>, <<127570, 127583>>,
      <<127590, 127743>>, <<128728, 128732>>, <<128749, 128751>>,
      <<128765, 128767>>, <<128884, 128895>>, <<128985, 128991>>,
      <<129004, 129007>>, <<129009, 129023>>, <<129036, 129039>>,
      <<129096, 129103>>, <<129114, 129119>>, <<129160, 129167>>,
      <<129198, 129199>>, <<129202, 129279>>, <<129620, 129631>>,
      <<129646, 129647>>, <<129653, 129655>>, <<129661, 129663>>,
      <<129671, 129679>>, <<129709, 129711>>, <<129723, 129727>>,
      <<129734, 129743>>, <<129754, 129759>>, <<129768, 129775>>,
      <<129783, 129791>>, <<129939, 129939>>, <<129995, 130031>>,
      <<130042, 131071>>, <<173792, 173823>>, <<177977, 177983>>,
      <<178206, 178207>>, <<183970, 183983>>, <<191457, 194559>>,
      <<195102, 196607>>, <<201547, 917759>>, <<918000, 1114111>>
    >>

isprintable(cp) ==
    ~(\E k \in 1..Len(NonPrintable) :
         NonPrintable[k][1] <= cp /\ cp <= NonPrintable[k][2])

LowerHex ==
    <<"0", "1", "2", "3", "4", "5", "6", "7", "8", "9", "a", "b", "c", "d", "e", "f">>

\* cp in exactly width lower-case hexadecimal digits
RECURSIVE HexText(_, _)
HexText(cp, width) ==
    IF width = 0 THEN <<>>
    ELSE HexText(cp \div 16, width - 1) \o <<LowerHex[(cp % 16) + 1]>>

\* the escape sequence repr() writes for the code point cp: \xNN below
\* U+0100, \uNNNN below U+10000, \UNNNNNNNN from there on
ReprEscape(cp) ==
    IF cp < 256 THEN <<"\\", "x">> \o HexText(cp, 2)
    ELSE IF cp < 65536 THEN <<"\\", "u">> \o HexText(cp, 4)
    ELSE <<"\\", "U">> \o HexText(cp, 8)

\* a character written by its code point: itself when str.isprintable()
\* accepts it, its escape sequence otherwise
ReprCodePoint(c, cp) == IF isprintable(cp) THEN <<c>> ELSE ReprEscape(cp)

\* how repr() writes the character c of a str quoted with quote: the
\* quote and the backslash escaped, tab, newline and carriage return by
\* their letter, any other character that is not printable by its code
\* point
ReprChar(c, quote) ==
    CASE c = quote -> <<"\\", c>>
      [] c = "\\" -> <<"\\", "\\">>
      [] c = "\t" -> <<"\\", "t">>
      [] c = "\n" -> <<"\\", "n">>
      [] c = "\r" -> <<"\\", "r">>
      [] c = "\f" -> <<"\\", "x", "0", "c">>
      [] IsCodePointName(c) -> ReprCodePoint(c, CodePoint(c))
      [] OTHER -> <<c>>

RECURSIVE ReprChars(_, _)
ReprChars(v, quote) ==
    IF Len(v) = 0 THEN <<>>
    ELSE ReprChar(v[1], quote) \o ReprChars(Tail(v), quote)

ReprStr(v, quote) == <<quote>> \o ReprChars(v, quote) \o <<quote>>

\* a decimal number text without its leading zeros
RECURSIVE Unpadded(_)
Unpadded(ds) == IF Len(ds) > 1 /\ ds[1] = "0" THEN Unpadded(Tail(ds)) ELSE ds

\* repr() of the date whose str() is iso: datetime.date(y, m, d)
ReprDate(iso) ==
    <<"d", "a", "t", "e", "t", "i", "m", "e", ".", "d", "a", "t", "e", "(">> \o Unpadded(SubSeq(iso, 1, 4)) \o <<",", " ">>
    \o Unpadded(SubSeq(iso, 6, 7)) \o <<",", " ">>
    \o Unpadded(SubSeq(iso, 9, 10)) \o <<")">>

\* int(ds) for a text of decimal digits
RECURSIVE DecNum(_)
DecNum(ds) ==
    IF Len(ds) = 0 THEN 0
    ELSE 10 * DecNum(SubSeq(ds, 1, Len(ds) - 1)) + HexVal(ds[Len(ds)])

\* str(n) for an int n >= 0
RECURSIVE DecText(_)
DecText(n) ==
    IF n < 10 THEN <<LowerHex[n + 1]>>
    ELSE DecText(n \div 10) \o <<LowerHex[(n % 10) + 1]>>

\* the arguments second and microsecond of repr(): the microsecond is
\* left out when it is 0, and then the second when it is 0
ReprSeconds(sec, usec) ==
    IF usec # <<"0">> THEN <<",", " ">> \o sec \o <<",", " ">> \o usec
    ELSE IF sec # <<"0">> THEN <<",", " ">> \o sec
    ELSE <<>>

\* repr() of the timedelta of a UTC offset of total seconds east
\* (sign "+") or west (sign "-"), 0 < total < 86400
ReprOffset(sign, total) ==
    IF sign = "-"
    THEN <<"d", "a", "t", "e", "t", "i", "m", "e", ".", "t", "i", "m", "e", "d", "e", "l", "t", "a", "(", "d", "a", "y", "s", "=", "-", "1", ",", " ", "s", "e", "c", "o", "n", "d", "s", "=">> \o DecText(86400 - total) \o <<")">>
    ELSE <<"d", "a", "t", "e", "t", "i", "m", "e", ".", "t", "i", "m", "e", "d", "e", "l", "t", "a", "(", "s", "e", "c", "o", "n", "d", "s", "=">> \o DecText(total) \o <<")">>

\* the tzinfo argument for the offset text tz ("+09:00"), none for a
\* naive datetime
ReprTzOf(sign, total) ==
    IF total = 0 THEN <<",", " ", "t", "z", "i", "n", "f", "o", "=", "d", "a", "t", "e", "t", "i", "m", "e", ".", "t", "i", "m", "e", "z", "o", "n", "e", ".", "u", "t", "c">>
    ELSE <<",", " ", "t", "z", "i", "n", "f", "o", "=", "d", "a", "t", "e", "t", "i", "m", "e", ".", "t", "i", "m", "e", "z", "o", "n", "e", "(">> \o ReprOffset(sign, total) \o <<")">>

ReprTz(tz) ==
    IF Len(tz) = 0 THEN <<>>
    ELSE ReprTzOf(tz[1], 3600 * DecNum(SubSeq(tz, 2, 3)) + 60 * DecNum(SubSeq(tz, 5, 6)))

\* rest is what str() writes after the seconds: ".ffffff" when the
\* microsecond is not 0, then the UTC offset of an aware datetime
ReprTimeRest(sec, rest) ==
    IF Len(rest) > 0 /\ rest[1] = "."
    THEN ReprSeconds(sec, Unpadded(SubSeq(rest, 2, 7))) \o ReprTz(SubSeq(rest, 8, Len(rest)))
    ELSE ReprSeconds(sec, <<"0">>) \o ReprTz(rest)

\* repr() of the datetime whose str() is v, "YYYY-MM-DD HH:MM:SS" and rest
ReprDateTime(v) ==
    <<"d", "a", "t", "e", "t", "i", "m", "e", ".", "d", "a", "t", "e", "t", "i", "m", "e", "(">> \o Unpadded(SubSeq(v, 1, 4)) \o <<",", " ">>
    \o Unpadded(SubSeq(v, 6, 7)) \o <<",", " ">>
    \o Unpadded(SubSeq(v, 9, 10)) \o <<",", " ">>
    \o Unpadded(SubSeq(v, 12, 13)) \o <<",", " ">>
    \o Unpadded(SubSeq(v, 15, 16))
    \o ReprTimeRest(Unpadded(SubSeq(v, 18, 19)), SubSeq(v, 20, Len(v)))
    \o <<")">>

\* repr(x), and str(x) for a list or a dict
RECURSIVE repr(_), ReprItems(_), ReprPairs(_)
repr(x) ==
    CASE x.t = "str"      -> ReprStr(x.v, ReprQuote(x.v))
      [] x.t = "date"     -> ReprDate(x.v)
      [] x.t = "datetime" -> ReprDateTime(x.v)
      [] x.t = "list"     -> <<"[">> \o ReprItems(x.items) \o <<"]">>
      [] x.t = "dict"     -> <<"{">> \o ReprPairs(x.items) \o <<"}">>
      [] OTHER            -> x.v

ReprItems(xs) ==
    IF Len(xs) = 0 THEN <<>>
    ELSE IF Len(xs) = 1 THEN repr(xs[1])
    ELSE repr(xs[1]) \o <<",", " ">> \o ReprItems(Tail(xs))

ReprPairs(kvs) ==
    IF Len(kvs) = 0 THEN <<>>
    ELSE repr(kvs[1][1]) \o <<":", " ">> \o repr(kvs[1][2])
         \o (IF Len(kvs) = 1 THEN <<>> ELSE <<",", " ">> \o ReprPairs(Tail(kvs)))

\* str(x)
str(x) == IF x.t \in {"list", "dict"} THEN repr(x) ELSE x.v

\* bool(x)
truthy(x) ==
    CASE x.t = "str"   -> x.v # <<>>
      [] x.t = "int"   -> x.v # <<"0">>
      [] x.t = "float" -> x.v \notin {<<"0", ".", "0">>, <<"-", "0", ".", "0">>}
      [] x.t = "bool"  -> x.v = <<"T", "r", "u", "e">>
      [] x.t = "none"  -> FALSE
      [] x.t \in {"list", "dict"} -> x.items # <<>>
      [] OTHER         -> TRUE

\* [f for f in fields if f not in fm]
RECURSIVE MissingFields(_, _)
MissingFields(fm, fields) ==
    IF Len(fields) = 0 THEN <<>>
    ELSE (IF fields[1] \notin DOMAIN fm THEN <<fields[1]>> ELSE <<>>)
         \o MissingFields(fm, Tail(fields))

Check001Of(missing) ==
    IF missing # <<>>
    THEN Verdict(FALSE, <<Issue("missing: ", missing)>>)
    ELSE Verdict(TRUE, <<>>)

check_001_frontmatter_fields(fm) == Check001Of(MissingFields(fm, REQUIRED_FIELDS))

\* the fields lines 114, 117, 129 and 132 test alike
StringFields == {<<"t", "i", "t", "l", "e">>, <<"d", "e", "s", "c", "r", "i", "p", "t", "i", "o", "n">>, <<"a", "r", "e", "a">>, <<"k", "e", "y", "w", "o", "r", "d">>}

\* a variant of FieldIssue without the "in fm" guards of check_002: an
\* absent field is reported like an invalid one
FieldIssueStrict(fm, f) ==
    IF f \in StringFields
    THEN (IF f \notin DOMAIN fm \/ ~NonEmptyStr(fm[f])
          THEN <<Issue("empty or not string", f)>> ELSE <<>>)
    ELSE IF f = <<"p", "u", "b", "l", "i", "s", "h", "e", "d", "A", "t">>
    THEN (IF f \notin DOMAIN fm THEN <<Issue("publishedAt format: ", <<>>)>>
          ELSE IF ~DATE_PATTERN_match(str(fm[f]))
          THEN <<Issue("publishedAt format: ", str(fm[f]))>> ELSE <<>>)
    ELSE IF f = <<"k", "e", "y", "w", "o", "r", "d", "s">>
    THEN (IF f \notin DOMAIN fm \/ fm[f].t # "list" \/ Len(fm[f].items) < 1
          THEN <<Issue("keywords not array or empty", f)>> ELSE <<>>)
    ELSE <<>>

\* the issue of check_002 for field f, <<>> when there is none
FieldIssue(fm, f) ==
    IF f \notin DOMAIN fm THEN <<>>
    ELSE IF f \in StringFields
    THEN (IF ~NonEmptyStr(fm[f]) THEN <<Issue("empty or not string", f)>> ELSE <<>>)
    ELSE IF f = <<"p", "u", "b", "l", "i", "s", "h", "e", "d", "A", "t">>
    THEN (IF ~DATE_PATTERN_match(str(fm[f]))
          THEN <<Issue("publishedAt format: ", str(fm[f]))>> ELSE <<>>)
    ELSE IF f = <<"k", "e", "y", "w", "o", "r", "d", "s">>
    THEN (IF fm[f].t # "list" \/ Len(fm[f].items) < 1
          THEN <<Issue("keywords not array or empty", f)>> ELSE <<>>)
    ELSE <<>>

\* the issues of the fields from REQUIRED_FIELDS[k] on; lines 114-140
\* examine the fields in the order of REQUIRED_FIELDS
RECURSIVE FieldIssuesFrom(_, _)
FieldIssuesFrom(fm, k) ==
    IF k > Len(REQUIRED_FIELDS) THEN <<>>
    ELSE FieldIssue(fm, REQUIRED_FIELDS[k]) \o FieldIssuesFrom(fm, k + 1)

Check002Of(issues) == Verdict(issues = <<>>, issues)

check_002_frontmatter_types(fm) == Check002Of(FieldIssuesFrom(fm, 1))

PrLines == 50

\* "\n".join(body.split("\n")[:50])
FirstLines(lines) == join(SubSeq(lines, 1, Min(PrLines, Len(lines))))

Check003Of(text) ==
    IF contains(text, <<"k-a", "k-fu", "k-xi", "k-ri", "k-e", "k-i", "k-to", "j-hiro", "j-koku">>) \/ contains(text, <<"P", "R">>)
    THEN Verdict(TRUE, <<>>)
    ELSE Verdict(FALSE, <<Issue("PR notation not found in first 50 lines", <<>>)>>)

check_003_pr_notation(body) == Check003Of(FirstLines(split(body)))

CtaOpen == <<"<", "d", "i", "v", " ", "c", "l", "a", "s", "s", "=", "\"", "c", "t", "a", "-", "b", "o", "x", "\"", ">">>
DivClose == <<"<", "/", "d", "i", "v", ">">>

\* position just after the whitespace run that starts at pos
RECURSIVE SkipSpace(_, _)
SkipSpace(s, pos) ==
    IF pos < Len(s) /\ s[pos + 1] \in Whitespace THEN SkipSpace(s, pos + 1) ELSE pos

\* len(re.findall(...)) for the comment pattern of lines 160 and 177
CtaComments(body) ==
    Cardinality({i \in 0..Len(body) :
        /\ MatchAt(body, <<"<", "!", "-", "-">>, i)
        /\ MatchAt(body, <<"C", "T", "A", ":">>, SkipSpace(body, i + 4))})

CtaCount == 3

Check004Of(cnt, cta_comments) ==
    IF cnt + cta_comments = CtaCount THEN Verdict(TRUE, <<>>)
    ELSE Verdict(FALSE, <<Issue("CTA count: ", <<cnt + cta_comments, cnt, cta_comments>>)>>)

check_004_cta_count(body) == Check004Of(count(body, CtaOpen), CtaComments(body))

\* the end of the match whose first closing tag is at j, -1 for j = -1
CtaBlockEndAt(body, j) ==
    IF j = -1 THEN -1 ELSE SkipSpace(body, j + Len(DivClose)) + Len(DivClose)

\* the regex of line 171 matched at an opening tag at position i: the end of
\* the shortest match, -1 if there is none
CtaBlockEnd(body, i) ==
    CtaBlockEndAt(body,
        LeastOr({j \in (i + Len(CtaOpen))..Len(body) :
                    /\ MatchAt(body, DivClose, j)
                    /\ MatchAt(body, DivClose, SkipSpace(body, j + Len(DivClose)))},
                -1))

\* re.findall of line 170 from position pos on: the non-overlapping blocks
RECURSIVE CtaBlocksFrom(_, _), CtaBlocksAt(_, _), CtaBlocksTo(_, _, _)
CtaBlocksFrom(body, pos) == CtaBlocksAt(body, find(body, CtaOpen, pos))

CtaBlocksAt(body, i) ==
    IF i = -1 THEN <<>> ELSE CtaBlocksTo(body, i, CtaBlockEnd(body, i))

CtaBlocksTo(body, i, e) ==
    IF e = -1 THEN <<>> ELSE <<Slice(body, i, e)>> \o CtaBlocksFrom(body, e)

\* the issues of block number n (1-based, as the detail numbers them)
CtaBlockIssues(block, n) ==
    (IF ~contains(block, <<"c", "t", "a", "-", "b", "a", "d", "g", "e">>) /\ ~contains(block, <<"c", "t", "a", "-", "b", "u", "t", "t", "o", "n">>)
     THEN <<Issue("missing badge or button", <<n>>)>> ELSE <<>>)
    \o
    (IF ~contains(block, <<"n", "o", "f", "o", "l", "l", "o", "w">>) \/ ~contains(block, <<"s", "p", "o", "n", "s", "o", "r", "e", "d">>)
     THEN <<Issue("missing nofollow/sponsored", <<n>>)>> ELSE <<>>)

RECURSIVE CtaIssuesFrom(_, _)
CtaIssuesFrom(blocks, n) ==
    IF n > Len(blocks) THEN <<>>
    ELSE CtaBlockIssues(blocks[n], n) \o CtaIssuesFrom(blocks, n + 1)

Check005Issues(issues) == Verdict(issues = <<>>, issues)

Check005Of(cta_blocks, cta_comments) ==
    IF cta_blocks = <<>> /\ cta_comments = 0
    THEN Verdict(FALSE, <<Issue("no CTA found", <<>>)>>)
    ELSE Check005Issues(CtaIssuesFrom(cta_blocks, 1))

check_005_cta_structure(body) == Check005Of(CtaBlocksFrom(body, 0), CtaComments(body))

\* a line the pattern of line 196 matches: "## " and at least one more
\* character
IsH2Line(line) == startswith(line, H2Prefix) /\ Len(line) > Len(H2Prefix)

H2Count == 5

Check006Of(cnt) ==
    IF cnt = H2Count THEN Verdict(TRUE, <<>>)
    ELSE Verdict(FALSE, <<Issue("H2 count: ", <<cnt>>)>>)

\* len(re.findall(...)) of line 196 over the lines of the body
H2LineCount(lines) == Cardinality({k \in 1..Len(lines) : IsH2Line(lines[k])})

check_006_h2_count(body) == Check006Of(H2LineCount(split(body)))

\* a line the pattern of line 221 matches: three or four "#", a space and
\* at least one more character
IsQuestionLine(line) ==
    \/ startswith(line, <<"#", "#", "#", " ">>)  /\ Len(line) > 4
    \/ startswith(line, <<"#", "#", "#", "#", " ">>) /\ Len(line) > 5

\* "FAQ" in heading or the Japanese phrase in heading
IsFaqHeading(heading) ==
    contains(heading, <<"F", "A", "Q">>) \/ contains(heading, <<"h-yo", "h-ku", "h-a", "h-ru", "j-shitsu", "j-mon">>)

FaqQuestions == 5

\* sections[3] of line 215 is the section number FaqFallback
FaqFallback == 4

\* lines 207-211: the content of the first section with an FAQ heading
\* (number first), "" when there is none (first = 0)
FaqMatched(sections, first) == IF first = 0 THEN <<>> ELSE sections[first][2]

\* lines 214-215
FaqContent(sections, matched) ==
    IF matched = <<>> /\ Len(sections) >= FaqFallback
    THEN sections[FaqFallback][2]
    ELSE matched

\* len(re.findall(...)) of line 221 over the lines of the section
QuestionCount(lines) == Cardinality({k \in 1..Len(lines) : IsQuestionLine(lines[k])})

Check007Count(cnt) ==
    IF cnt >= FaqQuestions THEN Verdict(TRUE, <<>>)
    ELSE Verdict(FALSE, <<Issue("FAQ questions: ", <<cnt>>)>>)

Check007Of(faq_content) ==
    IF faq_content = <<>>
    THEN Verdict(FALSE, <<Issue("FAQ section not found", <<>>)>>)
    ELSE Check007Count(QuestionCount(split(faq_content)))

Check007Sections(sections) ==
    Check007Of(FaqContent(sections,
        FaqMatched(sections,
            LeastOr({k \in 1..Len(sections) : IsFaqHeading(sections[k][1])}, 0))))

check_007_faq_questions(body) == Check007Sections(find_h2_sections(body))

MinChars == 2500

Check008Of(char_count) ==
    IF char_count >= MinChars THEN Verdict(TRUE, <<>>)
    ELSE Verdict(FALSE, <<Issue("chars: ", <<char_count>>)>>)

check_008_char_count(body) == Check008Of(count_japanese_chars(body))

\* the words of the alternation that occur at position i, by list index
WordsAt(body, i) ==
    {w \in 1..Len(FORBIDDEN_WORDS) : MatchAt(body, FORBIDDEN_WORDS[w], i)}

\* FORBIDDEN_PATTERN.findall(body) from position pos on: at the leftmost
\* position where a word occurs (i), the first such word of the alternation
RECURSIVE ForbiddenFrom(_, _), ForbiddenAt(_, _), ForbiddenWord(_, _, _)
ForbiddenFrom(body, pos) ==
    ForbiddenAt(body, LeastOr({i \in pos..Len(body) : WordsAt(body, i) # {}}, -1))

ForbiddenAt(body, i) ==
    IF i = -1 THEN <<>>
    ELSE ForbiddenWord(body, i, FORBIDDEN_WORDS[LeastOr(WordsAt(body, i), 0)])

ForbiddenWord(body, i, word) == <<word>> \o ForbiddenFrom(body, i + Len(word))

\* the items of word_counts: each matched word once, in order of first
\* occurrence, with its number of matches
RECURSIVE WordCounts(_, _)
WordCounts(matches, k) ==
    IF k > Len(matches) THEN <<>>
    ELSE IF \E j \in 1..(k - 1) : matches[j] = matches[k]
        THEN WordCounts(matches, k + 1)
    ELSE <<Issue("word(count)",
                 <<matches[k],
                   Cardinality({j \in 1..Len(matches) : matches[j] = matches[k]})>>)>>
         \o WordCounts(matches, k + 1)

Check009Of(matches) ==
    IF matches = <<>> THEN Verdict(TRUE, <<>>)
    ELSE Verdict(FALSE, WordCounts(matches, 1))

check_009_forbidden_words(body) == Check009Of(ForbiddenFrom(body, 0))

\* l.strip().startswith("|")
IsTableLine(line) == startswith(strip(line), <<"|">>)

CostTableLines == 4

Check010Count(table_lines) ==
    IF table_lines >= CostTableLines THEN Verdict(TRUE, <<>>)
    ELSE Verdict(FALSE, <<Issue("table lines in H2-1: ", <<table_lines>>)>>)

TableLineCount(lines) == Cardinality({k \in 1..Len(lines) : IsTableLine(lines[k])})

Check010Of(sections) ==
    IF sections = <<>>
    THEN Verdict(FALSE, <<Issue("no H2 sections", <<>>)>>)
    ELSE Check010Count(TableLineCount(split(sections[1][2])))

check_010_cost_table(body) == Check010Of(find_h2_sections(body))

\* line 280: a table line that holds two consecutive dashes
IsSeparatorLine(line) ==
    startswith(strip(line), <<"|">>) /\ contains(strip(line), <<"-", "-">>)

\* the while loop of lines 270-290 from index i (0-based) on, with its locals
RECURSIVE TableScan(_, _, _, _, _)
TableScan(lines, i, in_table, has_separator, issues) ==
    IF ~(i < Len(lines)) THEN issues
    ELSE IF IsTableLine(lines[i + 1])
        THEN IF ~in_table
             THEN IF i + 1 < Len(lines)
                  THEN IF IsSeparatorLine(lines[i + 2])
                       THEN TableScan(lines, i + 1, TRUE, TRUE, issues)
                       ELSE TableScan(lines, i + 1, TRUE, FALSE,
                                Append(issues,
                                    Issue("table header not followed by separator: line ",
                                          <<i + 1>>)))
                  ELSE TableScan(lines, i + 1, TRUE, FALSE, issues)
             ELSE TableScan(lines, i + 1, in_table, has_separator, issues)
    ELSE IF in_table
        THEN IF ~has_separator
             THEN TableScan(lines, i + 1, FALSE, has_separator,
                      Append(issues,
                          Issue("no separator row found: table ending at line ", <<i>>)))
             ELSE TableScan(lines, i + 1, FALSE, has_separator, issues)
    ELSE TableScan(lines, i + 1, in_table, has_separator, issues)

\* issues[:3]
TableDetail == 3

Check011Of(issues) ==
    IF issues # <<>>
    THEN Verdict(FALSE, SubSeq(issues, 1, Min(TableDetail, Len(issues))))
    ELSE Verdict(TRUE, <<>>)

check_011_markdown_table_syntax(body) ==
    Check011Of(TableScan(split(body), 0, FALSE, FALSE, <<>>))

\* JOTAI_PATTERN matched at position i: the matched text, <<>> if none.  The
\* alternatives are tried in order; the third consumes one character that
\* is not "h-i" before the two characters "h-da" "maru".
JotaiAt(text, i) ==
    IF MatchAt(text, <<"h-de", "h-a", "h-ru", "maru">>, i) THEN <<"h-de", "h-a", "h-ru", "maru">>
    ELSE IF MatchAt(text, <<"h-de", "h-a", "h-ro", "h-u", "maru">>, i) THEN <<"h-de", "h-a", "h-ro", "h-u", "maru">>
    ELSE IF i < Len(text) /\ text[i + 1] # "h-i" /\ MatchAt(text, <<"h-da", "maru">>, i + 1)
        THEN Slice(text, i, i + 3)
    ELSE <<>>

\* JOTAI_PATTERN.findall(text) from position pos on; i is the leftmost
\* position with a match, m the match
RECURSIVE JotaiFrom(_, _), JotaiNext(_, _), JotaiTake(_, _, _)
JotaiFrom(text, pos) ==
    JotaiNext(text, LeastOr({i \in pos..Len(text) : JotaiAt(text, i) # <<>>}, -1))

JotaiNext(text, i) == IF i = -1 THEN <<>> ELSE JotaiTake(text, i, JotaiAt(text, i))

JotaiTake(text, i, m) == <<m>> \o JotaiFrom(text, i + Len(m))

\* matches[:5]
StyleDetail == 5

Check012Of(matches) ==
    IF matches = <<>> THEN Verdict(TRUE, <<>>)
    ELSE Verdict(FALSE, <<Issue("jotai found: ",
                                SubSeq(matches, 1, Min(StyleDetail, Len(matches))))>>)

check_012_writing_style(body) == Check012Of(JotaiFrom(strip_html_tags(body), 0))

AreaCount == 3

\* lines 313-316 with cnt = body.count(area)
Check013Count(area, cnt) ==
    IF cnt >= AreaCount
    THEN [raised |-> FALSE, pass |-> TRUE, detail |-> <<>>]
    ELSE [raised |-> FALSE, pass |-> FALSE,
          detail |-> <<Issue("area count: ", <<area.v, cnt>>)>>]

\* raised: body.count(area) raises TypeError for an area that is not a str
Check013Of(area, body) ==
    IF ~truthy(area)
    THEN [raised |-> FALSE, pass |-> FALSE,
          detail |-> <<Issue("no area in frontmatter", <<>>)>>]
    ELSE IF area.t # "str"
    THEN [raised |-> TRUE, pass |-> FALSE, detail |-> <<>>]
    ELSE Check013Count(area, count(body, area.v))

\* fm.get("area", "") is the empty str when the key is absent
check_013_area_frequency(fm, body) ==
    IF <<"a", "r", "e", "a">> \in DOMAIN fm THEN Check013Of(fm[<<"a", "r", "e", "a">>], body)
    ELSE Check013Of(PyStr(<<>>), body)

Check014Of(missing) ==
    IF missing = <<>> THEN Verdict(TRUE, <<>>)
    ELSE Verdict(FALSE, <<Issue("missing: ", missing)>>)

\* images: which of the article's "ogp" and "thumb" files os.path.exists finds
check_014_image_exists(images) ==
    Check014Of((IF "ogp" \notin images THEN <<"ogp">> ELSE <<>>)
               \o (IF "thumb" \notin images THEN <<"thumb">> ELSE <<>>))

-----------------------------------------------------------------------------
(* run_checks.  A Python dict built by the script is the sequence of its   *)
(* items in insertion order, an item being [key |-> k, value |-> v].       *)

Item(k, v) == [key |-> k, value |-> v]

\* key in d
HasKey(d, k) == \E n \in 1..Len(d) : d[n].key = k

\* d[key]
Get(d, k) == d[CHOOSE n \in 1..Len(d) : d[n].key = k].value

NumChecks == 14

\* f"check_{i:03d}"
CheckId(i) == "check_" \o (IF i < 10 THEN "00" ELSE "0") \o ToString(i)

\* what run_checks does: it returns results or an exception leaves it
Raised(error) == [raised |-> TRUE, error |-> error, results |-> <<>>]

\* lines 346-403, c013 being what check_013_area_frequency does
RunChecksWith(fm, body, images, c013) ==
    IF c013.raised THEN Raised("TypeError")
    ELSE [raised |-> FALSE, error |-> "",
          results |->
            << Item("check_001", check_001_frontmatter_fields(fm)),
               Item("check_002", check_002_frontmatter_types(fm)),
               Item("check_003", check_003_pr_notation(body)),
               Item("check_004", check_004_cta_count(body)),
               Item("check_005", check_005_cta_structure(body)),
               Item("check_006", check_006_h2_count(body)),
               Item("check_007", check_007_faq_questions(body)),
               Item("check_008", check_008_char_count(body)),
               Item("check_009", check_009_forbidden_words(body)),
               Item("check_010", check_010_cost_table(body)),
               Item("check_011", check_011_markdown_table_syntax(body)),
               Item("check_012", check_012_writing_style(body)),
               Item("check_013", Verdict(c013.pass, c013.detail)),
               Item("check_014", check_014_image_exists(images)) >>]

\* line 342 onwards, parsed being what parse_frontmatter does
RunChecksOn(parsed, images) ==
    IF parsed.raised THEN Raised("ValueError")
    ELSE RunChecksWith(parsed.fm, parsed.body, images,
                       check_013_area_frequency(parsed.fm, parsed.body))

\* an article file: content is its text, readable is whether open/read with
\* encoding utf-8 succeeds, images is what check_014 finds on disk
run_checks(article, safe_load) ==
    IF ~article.readable THEN Raised("UnicodeDecodeError")
    ELSE RunChecksOn(parse_frontmatter(article.content, safe_load),
                     article.images)

-----------------------------------------------------------------------------
(* aggregate_results                                                       *)

\* pass_count / total * 100 is computed in binary floating point and the
\* format rounds that double, so the text differs from the rounding of the
\* exact quotient only where the exact value lies half way between two
\* neighbours: there the double may fall on either side.  The exact value
\* of 100 * p / t is the tie k + 1/2 just when p / t = (2k + 1) / 200, and
\* the double depends on that fraction alone.  HalfUp0 holds the k for
\* which f"{(2 * k + 1) / 200 * 100:.0f}" is k + 1 and not k.
HalfUp0 ==
    {1, 3, 5, 7, 9, 11, 13, 15, 17, 19, 21, 23, 25, 27, 29, 31, 33, 35,
    37, 39, 41, 43, 45, 47, 49, 51, 53, 54, 55, 59, 61, 63, 65, 67, 69,
    71, 73, 75, 77, 79, 81, 83, 85, 87, 89, 91, 93, 95, 97, 99}

\* the same for one decimal: the tenths k for which
\* f"{(2 * k + 1) / 2000 * 100:.1f}" shows k + 1 tenths and not k
HalfUp1 ==
    {0, 3, 6, 7, 8, 10, 13, 14, 15, 16, 17, 20, 23, 24, 27, 28, 33, 34,
    37, 38, 39, 41, 44, 46, 47, 48, 49, 50, 54, 56, 57, 58, 61, 64, 65,
    66, 67, 68, 69, 77, 79, 80, 81, 84, 85, 87, 91, 95, 96, 97, 99, 100,
    101, 106, 107, 110, 111, 114, 115, 116, 117, 121, 125, 126, 127, 129,
    130, 131, 133, 134, 135, 136, 137, 138, 139, 140, 147, 151, 155, 156,
    157, 159, 160, 161, 163, 165, 166, 167, 168, 169, 170, 171, 177, 180,
    183, 185, 187, 188, 190, 193, 195, 196, 197, 198, 199, 200, 201, 207,
    210, 215, 217, 218, 220, 223, 225, 226, 227, 228, 230, 231, 233, 237,
    240, 245, 247, 248, 250, 253, 255, 256, 257, 258, 260, 261, 263, 264,
    265, 266, 267, 268, 269, 270, 271, 272, 273, 274, 275, 276, 277, 278,
    279, 280, 297, 305, 307, 308, 310, 313, 315, 317, 318, 323, 324, 325,
    327, 328, 329, 330, 333, 334, 335, 336, 337, 338, 339, 340, 341, 343,
    347, 353, 357, 358, 363, 367, 368, 369, 373, 374, 377, 378, 379, 383,
    384, 385, 387, 388, 389, 390, 393, 394, 395, 397, 398, 399, 400, 401,
    403, 404, 405, 407, 417, 418, 423, 427, 428, 429, 433, 434, 437, 438,
    439, 443, 444, 447, 448, 449, 450, 453, 454, 455, 457, 458, 459, 460,
    461, 463, 464, 465, 466, 467, 468, 477, 478, 483, 487, 488, 493, 494,
    497, 498, 499, 527, 537, 543, 547, 548, 553, 554, 557, 558, 559, 563,
    564, 567, 568, 569, 573, 574, 575, 577, 578, 579, 580, 583, 584, 585,
    586, 587, 588, 589, 590, 591, 593, 594, 595, 596, 597, 598, 599, 600,
    601, 603, 604, 605, 606, 607, 608, 609, 610, 611, 612, 613, 614, 615,
    616, 617, 618, 619, 620, 621, 622, 623, 624, 644, 647, 649, 654, 657,
    659, 664, 667, 669, 671, 674, 676, 677, 679, 681, 684, 686, 687, 689,
    691, 694, 696, 697, 699, 701, 704, 706, 707, 708, 709, 711, 713, 714,
    716, 717, 718, 719, 721, 723, 724, 726, 727, 728, 729, 731, 733, 734,
    735, 736, 737, 738, 739, 740, 741, 743, 744, 745, 746, 747, 748, 749,
    757, 767, 769, 774, 777, 779, 784, 787, 789, 794, 796, 797, 799, 801,
    804, 806, 807, 809, 811, 814, 816, 817, 819, 821, 824, 826, 827, 829,
    831, 833, 834, 836, 837, 838, 839, 841, 843, 844, 846, 847, 848, 849,
    851, 853, 854, 856, 857, 858, 859, 860, 861, 863, 864, 865, 866, 867,
    868, 869, 870, 871, 873, 874, 877, 887, 894, 897, 899, 904, 907, 909,
    914, 917, 919, 921, 924, 926, 927, 929, 931, 934, 936, 937, 939, 941,
    944, 946, 947, 949, 951, 954, 956, 957, 958, 959, 961, 963, 964, 966,
    967, 968, 969, 971, 973, 974, 976, 977, 978, 979, 981, 983, 984, 985,
    986, 987, 988, 989, 990, 991, 993, 994, 995, 996, 997, 998, 999}

\* the neighbour the format writes for the quotient q, remainder r of a
\* division by den: the nearest one, and at a tie the one half_up decides
RoundTo(q, r, den, half_up) ==
    IF 2 * r < den THEN q
    ELSE IF 2 * r > den THEN q + 1
    ELSE IF q \in half_up THEN q + 1 ELSE q

\* "N/A", the rate when nothing was counted
NotAvailable == "N/A"

\* f"{pass_count / total * 100:.0f}%"
Rate0(pass_count, total) ==
    ToString(RoundTo((100 * pass_count) \div total,
                     (100 * pass_count) % total, total, HalfUp0)) \o "%"

Tenths(tenths) == ToString(tenths \div 10) \o "." \o ToString(tenths % 10) \o "%"

\* f"{total_pass / total_checks * 100:.1f}%"
Rate1(total_pass, total_checks) ==
    Tenths(RoundTo((1000 * total_pass) \div total_checks,
                   (1000 * total_pass) % total_checks, total_checks, HalfUp1))

\* fail_files[:20]
FailSample == 20

\* a variant of FilesWith without the "cid in checks" test of line 417: an
\* entry that lacks the check counts as a failure
RECURSIVE FilesWithAll(_, _, _)
FilesWithAll(results, cid, want) ==
    IF Len(results) = 0 THEN <<>>
    ELSE (IF IF HasKey(results[1].value, cid)
             THEN Get(results[1].value, cid).pass = want
             ELSE want = FALSE
          THEN <<results[1].key>> ELSE <<>>)
         \o FilesWithAll(Tail(results), cid, want)

\* a variant of FilesWith whose loop ends at the first entry that lacks the
\* check instead of skipping it
RECURSIVE FilesWithStop(_, _, _)
FilesWithStop(results, cid, want) ==
    IF Len(results) = 0 THEN <<>>
    ELSE IF ~HasKey(results[1].value, cid) THEN <<>>
    ELSE (IF Get(results[1].value, cid).pass = want
          THEN <<results[1].key>> ELSE <<>>)
         \o FilesWithStop(Tail(results), cid, want)

\* the inner loop of lines 416-422 for one check id: the filenames of the
\* entries counted as pass (want = TRUE) or as fail, in dict order
RECURSIVE FilesWith(_, _, _)
FilesWith(results, cid, want) ==
    IF Len(results) = 0 THEN <<>>
    ELSE (IF /\ HasKey(results[1].value, cid)
             /\ Get(results[1].value, cid).pass = want
          THEN <<results[1].key>> ELSE <<>>)
         \o FilesWith(Tail(results), cid, want)

\* a variant of SummaryFrom that takes fail_files_total from the truncated
\* sample
SummaryShort(pass_count, fail_files) ==
    [pass |-> pass_count,
     fail |-> Len(fail_files),
     pass_rate |-> IF pass_count + Len(fail_files) > 0
                   THEN Rate0(pass_count, pass_count + Len(fail_files))
                   ELSE NotAvailable,
     fail_files |-> SubSeq(fail_files, 1, Min(FailSample, Len(fail_files))),
     fail_files_total |-> Min(FailSample, Len(fail_files))]

\* a variant of SummaryFrom that formats the rate of an empty count as a
\* number
SummaryZero(pass_count, fail_files) ==
    [pass |-> pass_count,
     fail |-> Len(fail_files),
     pass_rate |-> IF pass_count + Len(fail_files) > 0
                   THEN Rate0(pass_count, pass_count + Len(fail_files))
                   ELSE "0%",
     fail_files |-> SubSeq(fail_files, 1, Min(FailSample, Len(fail_files))),
     fail_files_total |-> Len(fail_files)]

\* summary[cid], lines 424-433
SummaryFrom(pass_count, fail_files) ==
    [pass |-> pass_count,
     fail |-> Len(fail_files),
     pass_rate |-> IF pass_count + Len(fail_files) > 0
                   THEN Rate0(pass_count, pass_count + Len(fail_files))
                   ELSE NotAvailable,
     fail_files |-> SubSeq(fail_files, 1, Min(FailSample, Len(fail_files))),
     fail_files_total |-> Len(fail_files)]

SummaryOf(results, cid) ==
    SummaryFrom(Len(FilesWith(results, cid, TRUE)), FilesWith(results, cid, FALSE))

aggregate_results(results) ==
    [i \in 1..NumChecks |-> Item(CheckId(i), SummaryOf(results, CheckId(i)))]

-----------------------------------------------------------------------------
(* run_site                                                                *)

\* the most article files a site holds in this model
MaxFiles == 3

\* what a file of the site may hold when the loop opens it
ArticleGood ==
    [readable |-> TRUE, images |-> {"ogp", "thumb"},
     content |-> <<"-", "-", "-", "\n", "t", "i", "t", "l", "e", ":", " ", "a", "\n", "d", "e", "s", "c", "r", "i", "p", "t", "i", "o", "n", ":", " ", "b", "\n", "p", "u", "b", "l", "i", "s", "h", "e", "d", "A", "t", ":", " ", "2", "0", "2", "4", "-", "0", "1", "-", "1", "5", "\n", "c", "a", "t", "e", "g", "o", "r", "y", ":", " ", "a", "r", "e", "a", "\n", "a", "r", "e", "a", ":", " ", "j-shibu", "j-ya", "\n", "k", "e", "y", "w", "o", "r", "d", ":", " ", "k", "\n", "k", "e", "y", "w", "o", "r", "d", "s", ":", " ", "[", "k", "]", "\n", "-", "-", "-", "\n", "P", "R", " ", "j-shibu", "j-ya", " ", "j-shibu", "j-ya", " ", "j-shibu", "j-ya", "\n", "<", "!", "-", "-", " ", "C", "T", "A", ":", " ", "a", " ", "-", "-", ">", "\n", "<", "!", "-", "-", " ", "C", "T", "A", ":", " ", "b", " ", "-", "-", ">", "\n", "<", "!", "-", "-", "C", "T", "A", ":", " ", "c", " ", "-", "-", ">", "\n", "#", "#", " ", "a", "\n", "|", " ", "a", " ", "|", "\n", "|", "-", "-", "|", "\n", "|", " ", "1", " ", "|", "\n", "|", " ", "2", " ", "|", "\n", "#", "#", " ", "b", "\n", "#", "#", " ", "c", "\n", "#", "#", " ", "F", "A", "Q", "\n", "#", "#", "#", " ", "q", "\n", "#", "#", "#", " ", "q", "\n", "#", "#", "#", " ", "q", "\n", "#", "#", "#", " ", "q", "\n", "#", "#", "#", "#", " ", "q", "\n", "#", "#", " ", "e", "\n", "h-de", "h-su", "maru">>]

ArticlePlain ==
    [readable |-> TRUE, images |-> {"ogp"},
     content |-> <<"P", "R", "\n", "<", "d", "i", "v", " ", "c", "l", "a", "s", "s", "=", "\"", "c", "t", "a", "-", "b", "o", "x", "\"", ">", "c", "t", "a", "-", "b", "a", "d", "g", "e", " ", "n", "o", "f", "o", "l", "l", "o", "w", "<", "/", "d", "i", "v", ">", " ", "<", "/", "d", "i", "v", ">", "\n", "#", "#", " ", "j-ichi", "j-ban", "\n", "h-da", "maru">>]

ArticleIntArea ==
    [readable |-> TRUE, images |-> {},
     content |-> <<"-", "-", "-", "\n", "a", "r", "e", "a", ":", " ", "5", "\n", "-", "-", "-", "\n", "x">>]

ArticleUndecodable ==
    [readable |-> FALSE, images |-> {"ogp", "thumb"}, content |-> <<>>]

ArticleBadDate ==
    [readable |-> TRUE, images |-> {"thumb"},
     content |-> <<"-", "-", "-", "\n", "p", "u", "b", "l", "i", "s", "h", "e", "d", "A", "t", ":", " ", "2", "0", "2", "4", "-", "0", "2", "-", "3", "0", "\n", "-", "-", "-", "\n", "x">>]

Articles ==
    {ArticleGood, ArticlePlain, ArticleIntArea, ArticleUndecodable, ArticleBadDate}

\* what yaml.safe_load of PyYAML 6.0 does with each header text that
\* parse_frontmatter cuts, or a split on "---" lines would cut, from the
\* articles above and from the texts of SpecFrontmatter
yaml_safe_load ==
    (<<"t", "i", "t", "l", "e", ":", " ", "a", "\n", "d", "e", "s", "c", "r", "i", "p", "t", "i", "o", "n", ":", " ", "b", "\n", "p", "u", "b", "l", "i", "s", "h", "e", "d", "A", "t", ":", " ", "2", "0", "2", "4", "-", "0", "1", "-", "1", "5", "\n", "c", "a", "t", "e", "g", "o", "r", "y", ":", " ", "a", "r", "e", "a", "\n", "a", "r", "e", "a", ":", " ", "j-shibu", "j-ya", "\n", "k", "e", "y", "w", "o", "r", "d", ":", " ", "k", "\n", "k", "e", "y", "w", "o", "r", "d", "s", ":", " ", "[", "k", "]">> :>
        LoadDict((<<"t", "i", "t", "l", "e">> :> PyStr(<<"a">>)) @@ (<<"d", "e", "s", "c", "r", "i", "p", "t", "i", "o", "n">> :> PyStr(<<"b">>)) @@ (<<"p", "u", "b", "l", "i", "s", "h", "e", "d", "A", "t">> :> PyDate(<<"2", "0", "2", "4", "-", "0", "1", "-", "1", "5">>)) @@ (<<"c", "a", "t", "e", "g", "o", "r", "y">> :> PyStr(<<"a", "r", "e", "a">>)) @@ (<<"a", "r", "e", "a">> :> PyStr(<<"j-shibu", "j-ya">>)) @@ (<<"k", "e", "y", "w", "o", "r", "d">> :> PyStr(<<"k">>)) @@ (<<"k", "e", "y", "w", "o", "r", "d", "s">> :> PyList(<<PyStr(<<"k">>)>>))))
    @@ (<<"a", "r", "e", "a", ":", " ", "5">> :>
        LoadDict((<<"a", "r", "e", "a">> :> PyInt(<<"5">>))))
    @@ (<<"p", "u", "b", "l", "i", "s", "h", "e", "d", "A", "t", ":", " ", "2", "0", "2", "4", "-", "0", "2", "-", "3", "0">> :>
        LoadRaised)
    @@ (<<>> :>
        LoadOther)
    @@ (<<"t", ":", " ", "a">> :>
        LoadDict((<<"t">> :> PyStr(<<"a">>))))
    @@ (<<"t", ":", " ", "a", "-", "-", "-", "b">> :>
        LoadDict((<<"t">> :> PyStr(<<"a", "-", "-", "-", "b">>))))
    @@ (<<"a", ":", " ", "b">> :>
        LoadDict((<<"a">> :> PyStr(<<"b">>))))
    @@ (<<"a", ":", " ", "b", "\n", "t", ":", " ", "a">> :>
        LoadDict((<<"a">> :> PyStr(<<"b">>)) @@ (<<"t">> :> PyStr(<<"a">>))))
    @@ (<<"x">> :>
        LoadOther)
    @@ (<<"x", "\n", "t", ":", " ", "a">> :>
        LoadYamlError)
    @@ (<<"t", ":", " ", "a", "-", "-", "-", "b", "\n", "t", ":", " ", "a", "-", "-", "-", "b">> :>
        LoadDict((<<"t">> :> PyStr(<<"a", "-", "-", "-", "b">>))))
    @@ (<<"t", ":", " ", "a", "-", "-", "-", "b", "\n", "a", ":", " ", "b">> :>
        LoadDict((<<"t">> :> PyStr(<<"a", "-", "-", "-", "b">>)) @@ (<<"a">> :> PyStr(<<"b">>))))
    @@ (<<"t", ":", " ", "a", "-", "-", "-", "b", "\n", "x">> :>
        LoadYamlError)
    @@ (<<"a", ":", " ", "b", "\n", "t", ":", " ", "a", "-", "-", "-", "b">> :>
        LoadDict((<<"a">> :> PyStr(<<"b">>)) @@ (<<"t">> :> PyStr(<<"a", "-", "-", "-", "b">>))))
    @@ (<<"a", ":", " ", "b", "\n", "a", ":", " ", "b">> :>
        LoadDict((<<"a">> :> PyStr(<<"b">>))))
    @@ (<<"a", ":", " ", "b", "\n", "a", ":", " ", "b", "\n", "t", ":", " ", "a">> :>
        LoadDict((<<"a">> :> PyStr(<<"b">>)) @@ (<<"t">> :> PyStr(<<"a">>))))
    @@ (<<"a", ":", " ", "b", "\n", "x">> :>
        LoadYamlError)
    @@ (<<"a", ":", " ", "b", "\n", "x", "\n", "t", ":", " ", "a">> :>
        LoadYamlError)
    @@ (<<"a", ":", " ", "b", "\n", "\n", "t", ":", " ", "a">> :>
        LoadDict((<<"a">> :> PyStr(<<"b">>)) @@ (<<"t">> :> PyStr(<<"a">>))))
    @@ (<<"x", "\n", "t", ":", " ", "a", "-", "-", "-", "b">> :>
        LoadYamlError)
    @@ (<<"x", "\n", "a", ":", " ", "b">> :>
        LoadYamlError)
    @@ (<<"x", "\n", "a", ":", " ", "b", "\n", "t", ":", " ", "a">> :>
        LoadYamlError)
    @@ (<<"x", "\n", "x">> :>
        LoadOther)
    @@ (<<"x", "\n", "x", "\n", "t", ":", " ", "a">> :>
        LoadYamlError)
    @@ (<<"x", "\n", "\n", "t", ":", " ", "a">> :>
        LoadYamlError)

\* the printable ASCII characters in code point order: those from the space
\* (32) to the underscore (95), and those from a (97) to the tilde (126).
\* The backtick (96) is left out, no name of the model holds one.
Ascii ==
    <<" !\"#$%&'()*+,-./0123456789:;<=>?@ABCDEFGHIJKLMNOPQRSTUVWXYZ[\\]^_",
      "abcdefghijklmnopqrstuvwxyz{|}~">>

\* ord(c) of a printable ASCII character
ord(c) ==
    IF \E i \in 1..Len(Ascii[1]) : SubSeq(Ascii[1], i, i) = c
    THEN 31 + CHOOSE i \in 1..Len(Ascii[1]) : SubSeq(Ascii[1], i, i) = c
    ELSE 96 + CHOOSE i \in 1..Len(Ascii[2]) : SubSeq(Ascii[2], i, i) = c

\* s < t on str: the first differing character decides by code point, and
\* a proper prefix is the smaller
RECURSIVE StrLess(_, _)
StrLess(s, t) ==
    IF Len(t) = 0 THEN FALSE
    ELSE IF Len(s) = 0 THEN TRUE
    ELSE IF Head(s) = Head(t) THEN StrLess(Tail(s), Tail(t))
    ELSE ord(Head(s)) < ord(Head(t))

\* sorted(paths) of distinct paths: the k-th has k - 1 smaller ones
sorted(paths) ==
    [k \in 1..Cardinality(paths) |->
        CHOOSE x \in paths : Cardinality({y \in paths : StrLess(y, x)}) = k - 1]

\* md_files + mdx_files, each sorted on its own
AllFiles(md_files, mdx_files) == sorted(md_files) \o sorted(mdx_files)

\* what glob finds of a directory holding n articles of one extension; the
\* names make the order of the numbers differ from the order of the texts
Glob(n, ext) == {"dir/a" \o ToString(k + 8) \o ext : k \in 1..n}

\* Path(filepath).name: what follows the last "/"
PathName(filepath) ==
    SubSeq(filepath,
           GreatestOr({i \in 1..Len(filepath) : SubSeq(filepath, i, i) = "/"}, 0) + 1,
           Len(filepath))

\* {"error": str(e)}
ErrorMarker(msg) == <<Item("error", msg)>>

\* sum(v[field] for v in summary.values()), field being "pass" or "fail"
RECURSIVE SumOf(_, _)
SumOf(summary, field) ==
    IF Len(summary) = 0 THEN 0
    ELSE (IF field = "pass" THEN summary[1].value.pass ELSE summary[1].value.fail)
         + SumOf(Tail(summary), field)

\* report["overall"], lines 478-485
OverallOf(total_pass, total_fail) ==
    [total_pass |-> total_pass,
     total_fail |-> total_fail,
     pass_rate  |-> IF total_pass + total_fail > 0
                    THEN Rate1(total_pass, total_pass + total_fail)
                    ELSE NotAvailable]

Overall(summary) == OverallOf(SumOf(summary, "pass"), SumOf(summary, "fail"))

\* the report without its timestamp
Report(all_files, summary) ==
    [site |-> "site",
     total_articles |-> Len(all_files),
     results |-> summary,
     overall |-> Overall(summary)]

\* lines 440-456: the directory test, the glob and the empty-site return
RunSiteStart ==
    /\ pc = "start"
    /\ files' = IF area_dir = "dir" THEN AllFiles(input.md, input.mdx) ELSE <<>>
    /\ IF files' = <<>>
       THEN /\ report' = <<>>
            /\ pc' = "done"
       ELSE /\ report' = report
            /\ pc' = "loop"
    /\ idx' = 0
    /\ all_results' = <<>>
    /\ UNCHANGED <<area_dir, input, result>>

\* a variant of Outcome whose except clause records nothing for the file
OutcomeDrop(got) == IF got.raised THEN <<>> ELSE got.results

\* lines 462-466: the entry of one file, got being what run_checks does
Outcome(got) == IF got.raised THEN ErrorMarker(got.error) ELSE got.results

\* lines 459-466: one iteration of the for loop, the except clause included
RunSiteFile ==
    /\ pc = "loop"
    /\ idx < Len(files)
    /\ \E article \in Articles :
        all_results' = Append(all_results,
                              Item(PathName(files[idx + 1]), Outcome(run_checks(article, yaml_safe_load))))
    /\ idx' = idx + 1
    /\ UNCHANGED <<area_dir, files, report, pc, input, result>>

\* lines 468-487: aggregate, build the report, return
RunSiteFinish ==
    /\ pc = "loop"
    /\ idx = Len(files)
    /\ report' = Report(files, aggregate_results(all_results))
    /\ pc' = "done"
    /\ UNCHANGED <<area_dir, files, idx, all_results, input, result>>

InitSite ==
    /\ area_dir \in {"dir", "missing"}
    /\ \E n_md \in 0..MaxFiles : \E n_mdx \in 0..(MaxFiles - n_md) :
          input = IF area_dir = "dir"
                  THEN [md |-> Glob(n_md, ".md"), mdx |-> Glob(n_mdx, ".mdx")]
                  ELSE [md |-> {}, mdx |-> {}]
    /\ files = <<>>
    /\ idx = 0
    /\ all_results = <<>>
    /\ report = <<>>
    /\ pc = "start"
    /\ result = <<>>

NextSite == RunSiteStart \/ RunSiteFile \/ RunSiteFinish

SpecSite == InitSite /\ [][NextSite]_vars

-----------------------------------------------------------------------------
(* One call of a single function: pc goes from "call" to "return", input   *)
(* is the argument and result what the function returned.  The variables   *)
(* of run_site stay idle.                                                  *)

Idle ==
    /\ area_dir = "none"
    /\ files = <<>>
    /\ idx = 0
    /\ all_results = <<>>
    /\ report = <<>>

\* the sequences of 1 to n elements of the set S
SeqsUpTo(S, n) == UNION {[1..k -> S] : k \in 1..n}

\* the lines of the blocks, one block after the other
RECURSIVE Flatten(_)
Flatten(blocks) ==
    IF Len(blocks) = 0 THEN <<>> ELSE blocks[1] \o Flatten(Tail(blocks))

-----------------------------------------------------------------------------
(* aggregate_results on its own, on mappings long enough for the sample of *)
(* failing files to be cut                                                 *)

\* the most documents of a mapping given to aggregate_results
MaxDocs == 21

OutcomeGood == Outcome(run_checks(ArticleGood, yaml_safe_load))
OutcomePlain == Outcome(run_checks(ArticlePlain, yaml_safe_load))
OutcomeError == Outcome(run_checks(ArticleUndecodable, yaml_safe_load))

DocOutcomes == {OutcomeGood, OutcomePlain, OutcomeError}

\* the most documents of a mapping whose outcomes are chosen freely and
\* whose every order is compared
MaxShuffled == 4

\* n documents with outcome a, except document p (if any) with outcome b
DocsOf(n, p, a, b) ==
    [k \in 1..n |-> Item("a" \o ToString(k) \o ".md", IF k = p THEN b ELSE a)]

\* the documents a1.md, a2.md, ... with the outcomes outs
DocsFrom(outs) ==
    [k \in 1..Len(outs) |-> Item("a" \o ToString(k) \o ".md", outs[k])]

InitAggregate ==
    /\ Idle
    /\ pc = "call"
    /\ \/ \E n \in 0..MaxDocs : \E p \in {0, 1, n} :
             \E a \in DocOutcomes, b \in DocOutcomes : input = DocsOf(n, p, a, b)
       \/ \E outs \in SeqsUpTo(DocOutcomes, MaxShuffled) : input = DocsFrom(outs)
    /\ result = <<>>

CallAggregate ==
    /\ pc = "call"
    /\ result' = aggregate_results(input)
    /\ pc' = "return"
    /\ UNCHANGED <<area_dir, files, idx, all_results, report, input>>

NextAggregate == CallAggregate

SpecAggregate == InitAggregate /\ [][NextAggregate]_vars

-----------------------------------------------------------------------------
(* check_011_markdown_table_syntax on its own                              *)

\* the most lines of a body given to check_011
MaxTableLines == 4

\* a header or data row, a separator row, a text line, an empty line, and
\* an indented row with a single dash
TableLineKinds == {<<"|", " ", "a", " ", "|">>, <<"|", "-", "-", "|">>, <<"x">>, <<>>, <<" ", "|", "-">>}

InitTable ==
    /\ Idle
    /\ pc = "call"
    /\ \E lines \in SeqsUpTo(TableLineKinds, MaxTableLines) : input = join(lines)
    /\ result = <<>>

CallTable ==
    /\ pc = "call"
    /\ result' = check_011_markdown_table_syntax(input)
    /\ pc' = "return"
    /\ UNCHANGED <<area_dir, files, idx, all_results, report, input>>

NextTable == CallTable

SpecTable == InitTable /\ [][NextTable]_vars

-----------------------------------------------------------------------------
(* check_007_faq_questions on its own                                      *)

\* the most level-2 sections of a body given to check_007
MaxSections == 4

FiveQuestions == <<<<"#", "#", "#", " ", "q">>, <<"#", "#", "#", " ", "q">>, <<"#", "#", "#", "#", " ", "q">>, <<"#", "#", "#", " ", "q">>, <<"#", "#", "#", " ", "q">>>>

\* a section as its lines: an FAQ or a plain heading, followed by nothing,
\* by five questions or by text and one question
SectionKinds ==
    {<<h>> \o c : h \in {<<"#", "#", " ", "F", "A", "Q">>, <<"#", "#", " ", "b">>},
                  c \in {<<>>, FiveQuestions, <<<<"x">>, <<"#", "#", "#", " ", "q">>>>}}

InitFaq ==
    /\ Idle
    /\ pc = "call"
    /\ \E blocks \in SeqsUpTo(SectionKinds, MaxSections) : input = join(Flatten(blocks))
    /\ result = <<>>

CallFaq ==
    /\ pc = "call"
    /\ result' = check_007_faq_questions(input)
    /\ pc' = "return"
    /\ UNCHANGED <<area_dir, files, idx, all_results, report, input>>

NextFaq == CallFaq

SpecFaq == InitFaq /\ [][NextFaq]_vars

-----------------------------------------------------------------------------
(* check_001_frontmatter_fields and check_002_frontmatter_types on the     *)
(* same frontmatter                                                        *)

Absent == [t |-> "absent"]

\* what a field of the frontmatter may hold
FieldChoices(f) ==
    CASE f = <<"t", "i", "t", "l", "e">>       -> {Absent, PyStr(<<"a">>), PyStr(<<>>)}
      [] f = <<"d", "e", "s", "c", "r", "i", "p", "t", "i", "o", "n">> -> {Absent, PyStr(<<"b">>), PyInt(<<"5">>)}
      [] f = <<"p", "u", "b", "l", "i", "s", "h", "e", "d", "A", "t">> -> {Absent, PyDate(<<"2", "0", "2", "4", "-", "0", "1", "-", "1", "5">>), PyStr(<<"2", "0", "2", "4", "-", "1", "-", "1", "5">>),
                    PyStr(<<"U+FF12", "U+FF10", "U+FF12", "U+FF14", "-", "U+FF10", "U+FF11", "-", "U+FF11", "U+FF15">>),
                    PyStr(<<"2", "0", "2", "4", "-", "0", "1", "-", "1", "5", "\n">>)}
      [] f = <<"c", "a", "t", "e", "g", "o", "r", "y">>    -> {Absent, PyStr(<<"a", "r", "e", "a">>)}
      [] f = <<"a", "r", "e", "a">>        -> {Absent, PyStr(<<"x">>), PyStr(<<" ">>)}
      [] f = <<"k", "e", "y", "w", "o", "r", "d">>     -> {Absent, PyStr(<<"k">>), PyNone}
      [] f = <<"k", "e", "y", "w", "o", "r", "d", "s">>    -> {Absent, PyList(<<PyStr(<<"k">>)>>), PyList(<<>>), PyStr(<<"k">>)}

\* the dict that holds the chosen fields, picks[k] being the choice for
\* REQUIRED_FIELDS[k]
FieldIndex(f) == CHOOSE k \in 1..Len(REQUIRED_FIELDS) : REQUIRED_FIELDS[k] = f

DictOf(picks) ==
    [f \in {REQUIRED_FIELDS[k] : k \in {j \in 1..Len(picks) : picks[j] # Absent}}
        |-> picks[FieldIndex(f)]]

InitTypes ==
    /\ Idle
    /\ pc = "call"
    /\ \E v1 \in FieldChoices(REQUIRED_FIELDS[1]), v2 \in FieldChoices(REQUIRED_FIELDS[2]),
          v3 \in FieldChoices(REQUIRED_FIELDS[3]), v4 \in FieldChoices(REQUIRED_FIELDS[4]),
          v5 \in FieldChoices(REQUIRED_FIELDS[5]), v6 \in FieldChoices(REQUIRED_FIELDS[6]),
          v7 \in FieldChoices(REQUIRED_FIELDS[7]) :
          input = DictOf(<<v1, v2, v3, v4, v5, v6, v7>>)
    /\ result = <<>>

CallTypes ==
    /\ pc = "call"
    /\ result' = [c001 |-> check_001_frontmatter_fields(input),
                  c002 |-> check_002_frontmatter_types(input)]
    /\ pc' = "return"
    /\ UNCHANGED <<area_dir, files, idx, all_results, report, input>>

NextTypes == CallTypes

SpecTypes == InitTypes /\ [][NextTypes]_vars

-----------------------------------------------------------------------------
(* check_012_writing_style on its own                                      *)

\* the most pieces of a body given to check_012
MaxStylePieces == 3

StylePieces ==
    {<<"h-da">>, <<"maru">>, <<"h-i">>, <<"x">>, <<"\n">>, <<"h-de", "h-a", "h-ru", "maru">>, <<"h-de", "h-a", "h-ro", "h-u", "maru">>, <<"<", "p", ">">>}

InitStyle ==
    /\ Idle
    /\ pc = "call"
    /\ \E pieces \in SeqsUpTo(StylePieces, MaxStylePieces) : input = Flatten(pieces)
    /\ result = <<>>

CallStyle ==
    /\ pc = "call"
    /\ result' = check_012_writing_style(input)
    /\ pc' = "return"
    /\ UNCHANGED <<area_dir, files, idx, all_results, report, input>>

NextStyle == CallStyle

SpecStyle == InitStyle /\ [][NextStyle]_vars

-----------------------------------------------------------------------------
(* parse_frontmatter on its own                                            *)

\* the most lines of a text given to parse_frontmatter
MaxHeaderLines == 4

HeaderLineKinds == {Delim, <<"t", ":", " ", "a", "-", "-", "-", "b">>, <<"a", ":", " ", "b">>, <<"x">>, <<>>}

InitFrontmatter ==
    /\ Idle
    /\ pc = "call"
    /\ \E lines \in SeqsUpTo(HeaderLineKinds, MaxHeaderLines) : input = join(lines)
    /\ result = <<>>

CallFrontmatter ==
    /\ pc = "call"
    /\ result' = parse_frontmatter(input, yaml_safe_load)
    /\ pc' = "return"
    /\ UNCHANGED <<area_dir, files, idx, all_results, report, input>>

NextFrontmatter == CallFrontmatter

SpecFrontmatter == InitFrontmatter /\ [][NextFrontmatter]_vars

-----------------------------------------------------------------------------
(* Properties of run_site (SpecSite)                                       *)

\* a value of all_results that holds the 14 verdicts in their fixed order
IsFullReport(checks) ==
    /\ Len(checks) = NumChecks
    /\ \A i \in 1..NumChecks :
          /\ checks[i].key = CheckId(i)
          /\ checks[i].value.pass \in BOOLEAN

\* a value of all_results that is a single error marker
IsErrorMarker(checks) == Len(checks) = 1 /\ checks[1].key = "error"

\* run_site got past the directory test and the empty-site return
Returned == "overall" \in DOMAIN report

\* C1: when run_site has processed a collection, every document has exactly
\* one outcome, the 14 verdicts check_001..check_014 in that order or a
\* single error marker; an error raised for one document does not keep the
\* documents after it from being evaluated and reported: the run ends only
\* after the last file, with an entry for each.
C1_EveryDocumentOneOutcome ==
    /\ Len(all_results) = idx
    /\ \A k \in 1..idx :
          /\ all_results[k].key = PathName(files[k])
          /\ IsFullReport(all_results[k].value) \/ IsErrorMarker(all_results[k].value)
    /\ (pc = "done" /\ area_dir = "dir" /\ files # <<>>) =>
          /\ idx = Len(files)
          /\ Returned
          /\ report.total_articles = Len(files)

\* an erroring document is followed by a document with a full report
C1_Witness ==
    /\ pc = "done"
    /\ Returned
    /\ \E k \in 1..(Len(all_results) - 1) :
          /\ IsErrorMarker(all_results[k].value)
          /\ IsFullReport(all_results[k + 1].value)

\* the document of this entry produced a report
HasReport(entry) == ~HasKey(entry.value, "error")

ReportCount(results) ==
    Cardinality({k \in 1..Len(results) : HasReport(results[k])})

ErrorKeys(results) ==
    {results[k].key : k \in {j \in 1..Len(results) : ~HasReport(results[j])}}

SampleOf(s) == {s.fail_files[j] : j \in 1..Len(s.fail_files)}

RuleCountsReports(s, results) ==
    /\ s.pass + s.fail = ReportCount(results)
    /\ SampleOf(s) \cap ErrorKeys(results) = {}

SummaryCountsReports(summary, results) ==
    \A i \in 1..NumChecks : RuleCountsReports(summary[i].value, results)

\* C2: for every mapping aggregate_results is given and each of the 14 rule
\* ids, pass + fail is the number of documents with a report; an
\* error-marked document adds to no count and to no sample; the overall
\* total_pass + total_fail is 14 times the number of documents with a report.
C2_CountsCoverReports ==
    /\ SummaryCountsReports(aggregate_results(all_results), all_results)
    /\ Returned =>
          /\ SummaryCountsReports(report.results, all_results)
          /\ report.overall.total_pass + report.overall.total_fail
                = NumChecks * ReportCount(all_results)

\* a returned report over documents with and without a report
C2_Witness ==
    /\ pc = "done"
    /\ Returned
    /\ ReportCount(all_results) > 0
    /\ ReportCount(all_results) < Len(all_results)
    /\ report.overall.total_pass + report.overall.total_fail
          = NumChecks * ReportCount(all_results)

\* the entries of results whose index is in S, from index k on
RECURSIVE PickFrom(_, _, _)
PickFrom(results, S, k) ==
    IF k > Len(results) THEN <<>>
    ELSE (IF k \in S THEN <<results[k]>> ELSE <<>>) \o PickFrom(results, S, k + 1)

\* adding the counts of a and b gives the counts of whole
MergeAgrees(a, b, whole) ==
    /\ a.pass + b.pass = whole.pass
    /\ a.fail + b.fail = whole.fail
    /\ a.fail_files_total + b.fail_files_total = whole.fail_files_total

SplitAgrees(part, rest, whole) ==
    \A i \in 1..NumChecks : MergeAgrees(part[i].value, rest[i].value, whole[i].value)

EverySplitAgrees(results, whole) ==
    \A S \in SUBSET (1..Len(results)) :
        SplitAgrees(aggregate_results(PickFrom(results, S, 1)),
                    aggregate_results(PickFrom(results, (1..Len(results)) \ S, 1)),
                    whole)

\* C3: for every split of a collection into two disjoint parts, error-marked
\* documents included, adding the per-rule counts of the aggregates of the
\* parts gives the pass count, fail count and failing total of the aggregate
\* of the whole.
C3_MergeOfPartsIsWhole ==
    EverySplitAgrees(all_results, aggregate_results(all_results))

\* three documents, one error-marked, and a rule with passes and failures
C3_Witness ==
    /\ pc = "done"
    /\ Returned
    /\ Len(all_results) >= 3
    /\ ReportCount(all_results) < Len(all_results)
    /\ \E i \in 1..NumChecks :
          /\ report.results[i].value.pass > 0
          /\ report.results[i].value.fail > 0

\* every rate is "N/A" and every count 0
SummaryNotAvailable(summary) ==
    \A i \in 1..NumChecks :
        /\ summary[i].value.pass_rate = NotAvailable
        /\ summary[i].value.pass = 0
        /\ summary[i].value.fail = 0
        /\ summary[i].value.fail_files = <<>>
        /\ summary[i].value.fail_files_total = 0

ReportNotAvailable(r) ==
    /\ SummaryNotAvailable(r.results)
    /\ r.overall.pass_rate = NotAvailable
    /\ r.overall.total_pass = 0
    /\ r.overall.total_fail = 0

\* C5 as the specification states it: when no document produced a report (no
\* documents at all, or every document error-marked), every per-rule rate
\* and the overall rate are reported as "N/A" with all counts 0.
C5_NoReportsGiveNotAvailable ==
    (pc = "done" /\ ReportCount(all_results) = 0) =>
        (Returned /\ ReportNotAvailable(report))

\* C5 as the code has it: when every document is error-marked, every
\* per-rule rate and the overall rate are "N/A" with all counts 0; for a
\* collection of zero documents or a missing directory run_site returns the
\* empty report, which holds no rate at all; aggregate_results itself gives
\* "N/A" and zero counts for the empty mapping.  No rate is computed from a
\* zero total.
C5_NotAvailableUnlessEmptySite ==
    /\ (pc = "done" /\ ReportCount(all_results) = 0) =>
          IF area_dir = "dir" /\ files # <<>>
          THEN Returned /\ ReportNotAvailable(report)
          ELSE DOMAIN report = {}
    /\ SummaryNotAvailable(aggregate_results(<<>>))

\* a site whose documents are all error-marked has been reported
C5_Witness ==
    /\ pc = "done"
    /\ Len(all_results) >= 2
    /\ ReportCount(all_results) = 0
    /\ Returned
    /\ report.overall.pass_rate = NotAvailable

-----------------------------------------------------------------------------
(* Properties of aggregate_results (SpecAggregate)                         *)

\* results with the entries j and j + 1 exchanged
Swap(results, j) ==
    [k \in 1..Len(results) |->
        IF k = j THEN results[j + 1]
        ELSE IF k = j + 1 THEN results[j]
        ELSE results[k]]

Reverse(results) == [k \in 1..Len(results) |-> results[Len(results) + 1 - k]]

\* results with its first entry moved to the end
Rotate(results) == [k \in 1..Len(results) |-> results[(k % Len(results)) + 1]]

\* every order of the entries of results
AllOrders(results) ==
    {[k \in 1..Len(results) |-> results[f[k]]] : f \in Permutations(1..Len(results))}

\* the same entries in other orders: every order of a mapping of up to
\* MaxShuffled entries; of a longer one every exchange of neighbours, the
\* reversal and the rotation
Reorderings(results) ==
    IF Len(results) <= MaxShuffled THEN AllOrders(results)
    ELSE {Reverse(results), Rotate(results)}
         \cup {Swap(results, j) : j \in 1..(Len(results) - 1)}

\* C4 as the specification states it: aggregating the same per-document
\* reports in any order yields the same summary, the sample of failing
\* document identifiers included.
C4_AnyOrderSameSummary ==
    pc = "return" => \A q \in Reorderings(input) : aggregate_results(q) = result

SameCounts(a, b) ==
    /\ a.pass = b.pass
    /\ a.fail = b.fail
    /\ a.pass_rate = b.pass_rate
    /\ a.fail_files_total = b.fail_files_total

SameCountsAll(x, y) ==
    \A i \in 1..NumChecks : x[i].key = y[i].key /\ SameCounts(x[i].value, y[i].value)

\* the indices of the documents that pass rule cid
PassingAt(results, cid) ==
    {k \in 1..Len(results) :
        HasKey(results[k].value, cid) /\ Get(results[k].value, cid).pass}

\* the indices of the documents that fail rule cid
FailingAt(results, cid) ==
    {k \in 1..Len(results) :
        HasKey(results[k].value, cid) /\ ~Get(results[k].value, cid).pass}

\* the index of the j-th failing document
NthFailing(results, cid, j) ==
    CHOOSE k \in FailingAt(results, cid) :
        Cardinality({m \in FailingAt(results, cid) : m <= k}) = j

\* the sample s.fail_files is the first 20 failing identifiers in the order
\* of the mapping and s.fail_files_total the number of all of them
SampleInOrder(s, results, cid) ==
    /\ s.fail_files_total = Cardinality(FailingAt(results, cid))
    /\ Len(s.fail_files) = Min(FailSample, Cardinality(FailingAt(results, cid)))
    /\ \A j \in 1..Len(s.fail_files) :
          s.fail_files[j] = results[NthFailing(results, cid, j)].key

\* the counts of s are the numbers of documents that pass and that fail
\* rule cid, and its rate is the rate of these two numbers: none of them
\* depends on where in the mapping a document stands
CountsByNumber(s, results, cid) ==
    /\ s.pass = Cardinality(PassingAt(results, cid))
    /\ s.fail = Cardinality(FailingAt(results, cid))
    /\ s.pass_rate = IF s.pass + s.fail > 0
                     THEN Rate0(s.pass, s.pass + s.fail)
                     ELSE NotAvailable

\* C4 as the code has it: in any order the same reports give the same
\* per-rule pass count, fail count, pass rate and failing total, each
\* being fixed by how many documents pass and fail the rule; the sample
\* holds the first 20 failing identifiers in the order of the input, so it
\* follows that order, and fail_files_total is the true number.
C4_CountsAnyOrderSampleInputOrder ==
    pc = "return" =>
        /\ \A q \in Reorderings(input) : SameCountsAll(aggregate_results(q), result)
        /\ \A i \in 1..NumChecks :
              /\ CountsByNumber(result[i].value, input, CheckId(i))
              /\ SampleInOrder(result[i].value, input, CheckId(i))

\* more than 20 documents fail a rule and another order gives another sample
C4_Witness ==
    /\ pc = "return"
    /\ result[1].value.fail_files_total > FailSample
    /\ Len(result[1].value.fail_files) = FailSample
    /\ \E q \in Reorderings(input) : aggregate_results(q) # result

-----------------------------------------------------------------------------
(* Properties of check_011 (SpecTable)                                     *)

\* the first lines of the contiguous runs of table lines
RunStarts(lines) ==
    {k \in 1..Len(lines) :
        IsTableLine(lines[k]) /\ (k = 1 \/ ~IsTableLine(lines[k - 1]))}

\* the line after line k is a table line with two consecutive dashes
SeparatorFollows(lines, k) == k < Len(lines) /\ IsSeparatorLine(lines[k + 1])

RunsWellFormed(lines) == \A k \in RunStarts(lines) : SeparatorFollows(lines, k)

\* C6: rule 011 passes exactly when, for every contiguous run of table
\* lines, the line after the first line of the run is a table line with at
\* least 2 consecutive dashes, a run whose first line is the last line of
\* the body included.
C6_PassIffEveryRunHasSeparator ==
    pc = "return" => (result.pass <=> RunsWellFormed(split(input)))

-----------------------------------------------------------------------------
(* Properties of check_007 (SpecFaq)                                       *)

FaqSections(sections) ==
    {k \in 1..Len(sections) : IsFaqHeading(sections[k][1])}

\* the content holds at least 5 level-3/level-4 headings
EnoughQuestions(content) == QuestionCount(split(content)) >= FaqQuestions

FaqRuleHolds(sections, verdict) ==
    /\ FaqSections(sections) # {} =>
          (verdict.pass <=> EnoughQuestions(sections[LeastOr(FaqSections(sections), 0)][2]))
    /\ (FaqSections(sections) = {} /\ Len(sections) >= FaqFallback) =>
          (verdict.pass <=> EnoughQuestions(sections[FaqFallback][2]))

\* C7: rule 007 evaluates the first section whose heading contains an FAQ
\* marker and uses the 4th section only if no heading contains one: with an
\* FAQ heading the verdict is pass iff that section holds >= 5 level-3 or
\* level-4 headings, whatever the 4th section holds; with none and at least
\* 4 sections it is pass iff the 4th section holds >= 5.
C7_FaqSectionDecides ==
    pc = "return" => FaqRuleHolds(find_h2_sections(input), result)

-----------------------------------------------------------------------------
(* Properties of check_001 and check_002 (SpecTypes)                       *)

\* the fields rule 002 has a requirement for
TypedFields ==
    {<<"t", "i", "t", "l", "e">>, <<"d", "e", "s", "c", "r", "i", "p", "t", "i", "o", "n">>, <<"p", "u", "b", "l", "i", "s", "h", "e", "d", "A", "t">>, <<"a", "r", "e", "a">>, <<"k", "e", "y", "w", "o", "r", "d">>,
     <<"k", "e", "y", "w", "o", "r", "d", "s">>}

\* YYYY-MM-DD: four digits, two digits and two digits, joined by hyphens
IsYearMonthDay(text) ==
    /\ Len(text) = 10
    /\ \A k \in {1, 2, 3, 4, 6, 7, 9, 10} :
          text[k] \in {"0", "1", "2", "3", "4", "5", "6", "7", "8", "9"}
    /\ text[5] = "-"
    /\ text[8] = "-"

\* the requirement the specification states for the value x of field f
StatedValue(f, x) ==
    IF f = <<"p", "u", "b", "l", "i", "s", "h", "e", "d", "A", "t">> THEN IsYearMonthDay(str(x))
    ELSE IF f = <<"k", "e", "y", "w", "o", "r", "d", "s">> THEN x.t = "list" /\ x.items # <<>>
    ELSE x.t = "str" /\ strip(x.v) # <<>>

\* the requirement of rule 002 for the value x of field f: the date is
\* what DATE_PATTERN matches, digits of any script and one trailing
\* newline included
ValidValue(f, x) ==
    IF f = <<"p", "u", "b", "l", "i", "s", "h", "e", "d", "A", "t">> THEN DATE_PATTERN_match(str(x))
    ELSE StatedValue(f, x)

\* the fields of fm that are present and break their requirement
InvalidFields(fm) ==
    {f \in TypedFields \cap DOMAIN fm : ~ValidValue(f, fm[f])}

\* the issue is about field f
IssueNames(issue, f) ==
    IF f = <<"p", "u", "b", "l", "i", "s", "h", "e", "d", "A", "t">> THEN issue.msg = "publishedAt format: "
    ELSE issue.arg = f

\* C8 as the specification states it: rule 002 passes only when title,
\* description, area and keyword are non-empty strings, publishedAt matches
\* YYYY-MM-DD and keywords is a non-empty sequence; for the empty Metadata
\* both rule 001 and rule 002 report a failure.
C8_PassOnlyWhenAllFieldsValid ==
    pc = "return" =>
        /\ result.c002.pass =>
              \A f \in TypedFields : f \in DOMAIN input /\ StatedValue(f, input[f])
        /\ DOMAIN input = {} => (~result.c001.pass /\ ~result.c002.pass)

\* C8 as the code has it: rule 002 examines only the fields that are
\* present; it passes exactly when each present one of title, description,
\* publishedAt, area, keyword and keywords is valid, and the detail lists
\* one issue for each invalid present field.  A valid publishedAt is a
\* text of the form dddd-dd-dd, d a decimal digit of any script, with or
\* without one newline after it.  Absence is the business of
\* rule 001: for the empty Metadata rule 001 fails naming the 7 fields and
\* rule 002 passes with an empty detail.
C8_PassIffPresentFieldsValid ==
    pc = "return" =>
        /\ result.c002.pass <=> InvalidFields(input) = {}
        /\ Len(result.c002.detail) = Cardinality(InvalidFields(input))
        /\ \A f \in InvalidFields(input) :
              \E j \in 1..Len(result.c002.detail) : IssueNames(result.c002.detail[j], f)
        /\ DOMAIN input = {} =>
              /\ ~result.c001.pass
              /\ result.c001.detail = <<Issue("missing: ", REQUIRED_FIELDS)>>
              /\ result.c002.pass
              /\ result.c002.detail = <<>>

\* the empty Metadata has been checked: rule 001 failed and rule 002 passed
C8_Witness ==
    /\ pc = "return"
    /\ DOMAIN input = {}
    /\ ~result.c001.pass
    /\ result.c002.pass

-----------------------------------------------------------------------------
(* Properties of check_012 (SpecStyle)                                     *)

\* "h-da" "maru" occurs at position i and no "h-i" comes just before it
BareDaAt(text, i) ==
    MatchAt(text, <<"h-da", "maru">>, i) /\ (i = 0 \/ text[i] # "h-i")

HasJotai(text) ==
    \/ contains(text, <<"h-de", "h-a", "h-ru", "maru">>)
    \/ contains(text, <<"h-de", "h-a", "h-ro", "h-u", "maru">>)
    \/ \E i \in 0..Len(text) : BareDaAt(text, i)

\* C9: rule 012 fails exactly when the tag-stripped body contains the
\* ending "de aru.", the ending "de arou." or a "da." that is not
\* immediately preceded by "i", at any position of the text, the very first
\* characters and the start of a line included.
C9_FailsIffJotaiOccurs ==
    pc = "return" => (~result.pass <=> HasJotai(strip_html_tags(input)))

-----------------------------------------------------------------------------
(* Properties of parse_frontmatter (SpecFrontmatter)                       *)

\* the split on delimiter lines: closing is the number of the first line
\* after the first that is a delimiter line, 0 if there is none
LineSplitAt(content, lines, closing) ==
    IF lines[1] # Delim \/ closing = 0
    THEN [found |-> FALSE, fm_str |-> <<>>, body |-> content]
    ELSE [found  |-> TRUE,
          fm_str |-> strip(join(SubSeq(lines, 2, closing - 1))),
          body   |-> strip(join(SubSeq(lines, closing + 1, Len(lines))))]

LineSplitOf(content, lines) ==
    LineSplitAt(content, lines,
                LeastOr({k \in 2..Len(lines) : lines[k] = Delim}, 0))

LineSplit(content) == LineSplitOf(content, split(content))

\* C10: parse_frontmatter splits on delimiter lines: a header is recognised
\* only if the text begins with a "---" line and a later "---" line exists;
\* the header is the text between those two lines and the body the text
\* after the closing line, trimmed; a "---" inside a header line does not
\* end the header; with no header Metadata is empty and the body is the
\* full text.
C10_SplitsOnDelimiterLines ==
    pc = "return" => result = ParsedAt(LineSplit(input), yaml_safe_load)

-----------------------------------------------------------------------------
(* check_006_h2_count and find_h2_sections on the same body                *)

\* the most lines of a body given to the two scanners
MaxH2Lines == 6

\* a heading with a title, the heading marker and its space with nothing
\* after, the marker without the space, and a text line
H2LineKinds == {<<"#", "#", " ", "a">>, <<"#", "#", " ">>, <<"#", "#">>, <<"x">>}

InitH2 ==
    /\ Idle
    /\ pc = "call"
    /\ \E lines \in SeqsUpTo(H2LineKinds, MaxH2Lines) : input = join(lines)
    /\ result = <<>>

\* count is len(h2s) of line 197
CallH2 ==
    /\ pc = "call"
    /\ result' = [count    |-> H2LineCount(split(input)),
                  verdict  |-> check_006_h2_count(input),
                  sections |-> find_h2_sections(input)]
    /\ pc' = "return"
    /\ UNCHANGED <<area_dir, files, idx, all_results, report, input>>

NextH2 == CallH2

SpecH2 == InitH2 /\ [][NextH2]_vars

\* C11: for every body, the number of level-2 headings rule 006 counts is
\* the number of sections find_h2_sections returns, so a body that passes
\* rule 006 has exactly 5 sections; the two scanners agree on what a
\* level-2 heading line is, a line that is only the heading marker
\* included.
C11_H2CountIsSectionCount ==
    pc = "return" =>
        /\ result.count = Len(result.sections)
        /\ result.verdict.pass => Len(result.sections) = H2Count

====
